---- MODULE Spec2Model ----
(***************************************************************************)
(* Room/session lifecycle server of Crown-Fight (src/server.py,            *)
(* class GameServer).                                                      *)
(*                                                                         *)
(* One thread per connection runs handle_client; the threads share the     *)
(* MongoDB collections (rooms_collection, users_collection), the room      *)
(* cache self.rooms and the session registry self.clients, and take no     *)
(* lock.  A handler is modelled as the sequence of its steps: each store   *)
(* call (find_one, insert_one, update_one, delete_one) is one action, and  *)
(* each run of in-memory statements between two store calls (the cache     *)
(* and session writes and the response) is one action, so that the threads *)
(* interleave where the code leaves the interpreter for I/O.  The checks   *)
(* a handler makes on the document it has just read belong to the action   *)
(* of the read.  Every store call on a single document is atomic.          *)
(*                                                                         *)
(* A Python dict is a function with a finite domain, a list is a           *)
(* sequence, None is the string "None".  The sockets are not part of the   *)
(* state, except for what the step just taken wrote to them: the direct    *)
(* response to its own connection (sent), labelled with the connection and *)
(* the request it answers, and the messages a broadcast delivered          *)
(* (pushed).  send_message swallows the exception json.dumps raises on a   *)
(* message that carries a room document (its created_at is a datetime and  *)
(* its _id an ObjectId), so such a message reaches no socket.              *)
(***************************************************************************)
EXTENDS Integers, Sequences, FiniteSets, TLC

VARIABLES
    db_rooms,   \* rooms_collection: room_id -> room document, or NoRoom
    db_users,   \* users_collection: username -> [last_room, character]
    rooms,      \* self.rooms: room_id -> cached room document, or NoRoom
    clients,    \* self.clients: connection -> session, or NoClient
    pc,         \* where each connection's thread stands
    loc,        \* the local variables of the handler a thread is running
    sent,       \* the direct response the step just taken wrote to a socket
    pushed      \* the broadcast messages the step just taken wrote to sockets

vars == <<db_rooms, db_users, rooms, clients, pc, loc, sent, pushed>>

None == "None"
\* what stands for an absent dict entry, for no handler running, for no response
NoRoom == [absent |-> TRUE]
NoClient == [absent |-> TRUE]
NoLocal == [absent |-> TRUE]
NoReply == [conn |-> 0, request |-> None, action |-> None, status |-> None, message |-> None]

(***************************************************************************)
(* Universes of the inputs.                                                *)
(***************************************************************************)
UserNames == <<"alice", "bob", "carol", "dave", "erin", "frank", "grace", "heidi">>
RoomCodes == <<"AAAAAA", "B2B2B2", "C3C3C3">>
CharacterNames == <<"Knight", "Mage", "Rogue">>
NumConns == 2        \* connections, each signed in as its own user
NumRoomIds == 2      \* room codes generate_room_id draws from
NumCharacters == 2   \* characters a client may ask for
Seated == 3          \* SpecCapacity: members of the room at the start
Joiners == 2         \* SpecCapacity: connections of users outside the room
NumQuestions == 5    \* question indices a client submits answers for
NumOptions == 2      \* letters, from A, a client answers with
Conns == 1..NumConns
Users == {UserNames[i] : i \in 1..NumConns}
RoomIds == {RoomCodes[i] : i \in 1..NumRoomIds}
Characters == {CharacterNames[i] : i \in 1..NumCharacters}

(***************************************************************************)
(* Python dict and list helpers.                                           *)
(***************************************************************************)
EmptyDict == [k \in {} |-> None]
DictSet(d, k, v) == [x \in (DOMAIN d) \cup {k} |-> IF x = k THEN v ELSE d[x]]
DictDel(d, k) == [x \in (DOMAIN d) \ {k} |-> d[x]]
DictValues(d) == {d[k] : k \in DOMAIN d}
DictGet(d, k, default) == IF k \in DOMAIN d THEN d[k] ELSE default
InList(x, s) == \E i \in 1..Len(s) : s[i] = x

\* list.remove(x): deletes the first occurrence of x
ListRemove(s, x) ==
    IF ~InList(x, s) THEN s
    ELSE LET i == CHOOSE j \in 1..Len(s) :
                      s[j] = x /\ \A k \in 1..(j - 1) : s[k] # x
         IN  SubSeq(s, 1, i - 1) \o SubSeq(s, i + 1, Len(s))

(***************************************************************************)
(* Documents and sessions.                                                 *)
(***************************************************************************)
max_players == 4

\* room_data of handle_create_room
NewRoom(username) ==
    [ creator           |-> username,
      players           |-> <<username>>,
      player_characters |-> EmptyDict,
      player_answers    |-> EmptyDict,
      player_roles      |-> EmptyDict,
      character_locked  |-> EmptyDict,
      is_active         |-> TRUE,
      created_at        |-> "datetime",
      max_players       |-> max_players,
      game_started      |-> FALSE,
      game_finished     |-> FALSE,
      current_question  |-> 0 ]

\* the session handle_client registers for a new connection
NewClient == [username |-> None, room_id |-> None, character_locked |-> FALSE]

NewUser == [last_room |-> None, character |-> None]

\* send_error, answering request req
ErrorReply(req, msg) ==
    [request |-> req, action |-> "error", status |-> "error", message |-> msg]
\* a success response handed to send_message, answering request req
SuccessReply(req, msg) ==
    [request |-> req, action |-> req \o "_response", status |-> "success", message |-> msg]
\* json.dumps(message), for a message whose data carries the room documents
\* docs: TypeError on a datetime (created_at) or an ObjectId (_id)
json_dumps(docs) ==
    IF \E d \in docs : d.created_at = "datetime" THEN "TypeError" ELSE "text"

\* socket.send of a message without room documents to connection c
Send(c, r) ==
    /\ sent' = [conn |-> c, request |-> r.request, action |-> r.action,
                status |-> r.status, message |-> r.message]
    /\ pushed' = {}
\* a step that writes to no socket
Quiet == sent' = NoReply /\ pushed' = {}

\* send_message(self.clients[c]['socket'], r) of a response r whose data
\* carries the room documents docs: the exception of json.dumps is swallowed
send_message(c, r, docs) ==
    IF json_dumps(docs) = "text" THEN Send(c, r) ELSE Quiet

\* the sessions registered in self.clients
Connected == {d \in DOMAIN clients : clients[d] # NoClient}

\* the active rooms, as find({"is_active": True}) returns them
active_rooms == {db_rooms[r] : r \in {x \in DOMAIN db_rooms :
                                       db_rooms[x] # NoRoom /\ db_rooms[x].is_active}}

\* broadcast_room_update(rid): the stored room goes to every session in rid
broadcast_room_update(rid) ==
    /\ sent' = NoReply
    /\ pushed' =
         IF db_rooms[rid] = NoRoom \/ json_dumps({db_rooms[rid]}) # "text" THEN {}
         ELSE {[conn |-> d, action |-> "room_updated"] :
                  d \in {x \in Connected : clients[x].room_id = rid}}

\* broadcast_room_list(): the list of active rooms goes to every session
broadcast_room_list ==
    /\ sent' = NoReply
    /\ pushed' =
         IF json_dumps(active_rooms) # "text" THEN {}
         ELSE {[conn |-> d, action |-> "rooms_updated"] : d \in Connected}

Local(rid, room, arg, disc) ==
    [room_id |-> rid, room |-> room, arg |-> arg, disconnecting |-> disc]

\* StoreSet with a filter that matches every document (update_many({}, ...))
StoreSet_EveryRoom(store, rid, fields) ==
    [r \in DOMAIN store |->
        IF store[r] = NoRoom THEN store[r]
        ELSE [f \in DOMAIN store[r] |->
                IF f \in DOMAIN fields THEN fields[f] ELSE store[r][f]]]

\* update_one({"room_id": rid}, {"$set": fields}): no effect when no document matches
StoreSet(store, rid, fields) ==
    IF store[rid] = NoRoom THEN store
    ELSE [store EXCEPT ![rid] =
            [f \in DOMAIN store[rid] |->
                IF f \in DOMAIN fields THEN fields[f] ELSE store[rid][f]]]

\* self.rooms[rid][field] = value for each field, under "if room_id in self.rooms"
CacheSet(cache, rid, fields) == StoreSet(cache, rid, fields)

Idle(c) == pc[c] = "idle"

\* the handler returns to the read loop of handle_client
Done(c) ==
    /\ pc' = [pc EXCEPT ![c] = "idle"]
    /\ loc' = [loc EXCEPT ![c] = NoLocal]

\* Finish writing the response to every other registered socket as well
Finish_ToEveryone(c, r) ==
    /\ Done(c)
    /\ sent' = [conn |-> c, request |-> r.request, action |-> r.action,
                status |-> r.status, message |-> r.message]
    /\ pushed' = {[conn |-> d, action |-> r.action] : d \in Connected \ {c}}

\* the handler sends the response r, its last, and returns
Finish(c, r) ==
    /\ Done(c)
    /\ Send(c, r)

\* start_server accepts a connection; handle_client registers its session
handle_client(c) ==
    /\ pc[c] = "closed"
    /\ clients' = [clients EXCEPT ![c] = NewClient]
    /\ pc' = [pc EXCEPT ![c] = "idle"]
    /\ Quiet
    /\ UNCHANGED <<db_rooms, db_users, rooms, loc>>


(***************************************************************************)
(* handle_sign_in.  The credential check is an input: ok is whether the    *)
(* password matches the stored hash of user u.                             *)
(***************************************************************************)
handle_sign_in(c, u, ok) ==
    /\ Idle(c)
    /\ IF ok
       THEN /\ clients' = [clients EXCEPT ![c].username = u]
            /\ Send(c, SuccessReply("sign_in", "Welcome back"))
       ELSE /\ Send(c, ErrorReply("sign_in", "Invalid username/email or password"))
            /\ UNCHANGED clients
    /\ UNCHANGED <<db_rooms, db_users, rooms, pc, loc>>

(***************************************************************************)
(* handle_create_room.  generate_room_id draws rid at random; the unique   *)
(* index on room_id makes insert_one raise when rid is already stored.     *)
(***************************************************************************)
handle_create_room_insert(c, rid) ==
    /\ Idle(c)
    /\ LET username == clients[c].username IN
       IF username = None
       THEN /\ Finish(c, ErrorReply("create_room", "You must be logged in to create a room"))
            /\ UNCHANGED <<db_rooms, db_users, rooms, clients>>
       ELSE IF db_rooms[rid] # NoRoom
       THEN /\ Finish(c, ErrorReply("create_room", "Room creation failed"))
            /\ UNCHANGED <<db_rooms, db_users, rooms, clients>>
       ELSE /\ db_rooms' = [db_rooms EXCEPT ![rid] = NewRoom(username)]
            /\ pc' = [pc EXCEPT ![c] = "create_user"]
            /\ loc' = [loc EXCEPT ![c] = Local(rid, NewRoom(username), None, FALSE)]
            /\ UNCHANGED <<db_users, rooms, clients>>
            /\ Quiet

handle_create_room_user(c) ==
    /\ pc[c] = "create_user"
    /\ db_users' = [db_users EXCEPT ![clients[c].username].last_room = loc[c].room_id]
    /\ pc' = [pc EXCEPT ![c] = "create_mem"]
    /\ UNCHANGED <<db_rooms, rooms, clients, loc>>
    /\ Quiet

handle_create_room_mem(c) ==
    /\ pc[c] = "create_mem"
    /\ rooms' = [rooms EXCEPT ![loc[c].room_id] = loc[c].room]
    /\ clients' = [clients EXCEPT ![c].room_id = loc[c].room_id]
    /\ send_message(c, SuccessReply("create_room", "Room created successfully!"),
                    {loc[c].room})
    /\ pc' = [pc EXCEPT ![c] = "create_list"]
    /\ UNCHANGED <<db_rooms, db_users, loc>>

handle_create_room_list(c) ==
    /\ pc[c] = "create_list"
    /\ broadcast_room_list
    /\ Done(c)
    /\ UNCHANGED <<db_rooms, db_users, rooms, clients>>

(***************************************************************************)
(* handle_join_room.                                                       *)
(***************************************************************************)
\* JoinError with the capacity test off by one (> for >=)
JoinError_OffByOne(room, username) ==
    IF room = NoRoom THEN "Room not found"
    ELSE IF ~room.is_active THEN "Room is not active"
    ELSE IF InList(username, room.players) THEN "You are already in this room"
    ELSE IF Len(room.players) > room.max_players THEN "Room is full"
    ELSE None

\* JoinError without the membership test
JoinError_NoMemberTest(room, username) ==
    IF room = NoRoom THEN "Room not found"
    ELSE IF ~room.is_active THEN "Room is not active"
    ELSE IF Len(room.players) >= room.max_players THEN "Room is full"
    ELSE None

\* the checks between find_one and the update: the error message, or None
JoinError(room, username) ==
    IF room = NoRoom THEN "Room not found"
    ELSE IF ~room.is_active THEN "Room is not active"
    ELSE IF InList(username, room.players) THEN "You are already in this room"
    ELSE IF Len(room.players) >= room.max_players THEN "Room is full"
    ELSE None

updated_players(room, username) == Append(room.players, username)

handle_join_room_find(c, rid) ==
    /\ Idle(c)
    /\ LET username == clients[c].username
           room == db_rooms[rid] IN
       IF username = None
       THEN Finish(c, ErrorReply("join_room", "You must be logged in to join a room"))
       ELSE IF JoinError(room, username) # None
       THEN Finish(c, ErrorReply("join_room", JoinError(room, username)))
       ELSE /\ pc' = [pc EXCEPT ![c] = "join_update"]
            /\ loc' = [loc EXCEPT ![c] = Local(rid, room, None, FALSE)]
            /\ Quiet
    /\ UNCHANGED <<db_rooms, db_users, rooms, clients>>

handle_join_room_update(c) ==
    /\ pc[c] = "join_update"
    /\ db_rooms' = StoreSet(db_rooms, loc[c].room_id,
                     [players |-> updated_players(loc[c].room, clients[c].username)])
    /\ pc' = [pc EXCEPT ![c] = "join_user"]
    /\ UNCHANGED <<db_users, rooms, clients, loc>>
    /\ Quiet

handle_join_room_user(c) ==
    /\ pc[c] = "join_user"
    /\ db_users' = [db_users EXCEPT ![clients[c].username].last_room = loc[c].room_id]
    /\ pc' = [pc EXCEPT ![c] = "join_mem"]
    /\ UNCHANGED <<db_rooms, rooms, clients, loc>>
    /\ Quiet

handle_join_room_mem(c) ==
    /\ pc[c] = "join_mem"
    /\ LET rid == loc[c].room_id
           players == updated_players(loc[c].room, clients[c].username) IN
       /\ rooms' = IF rooms[rid] # NoRoom
                   THEN CacheSet(rooms, rid, [players |-> players])
                   ELSE [rooms EXCEPT ![rid] = [loc[c].room EXCEPT !.players = players]]
       /\ clients' = [clients EXCEPT ![c].room_id = rid]
       /\ send_message(c, SuccessReply("join_room", "Joined room successfully!"),
                       {rooms'[rid]})
    /\ pc' = [pc EXCEPT ![c] = "join_notify"]
    /\ UNCHANGED <<db_rooms, db_users, loc>>

handle_join_room_notify(c) ==
    /\ pc[c] = "join_notify"
    /\ broadcast_room_update(loc[c].room_id)
    /\ pc' = [pc EXCEPT ![c] = "join_list"]
    /\ UNCHANGED <<db_rooms, db_users, rooms, clients, loc>>

handle_join_room_list(c) ==
    /\ pc[c] = "join_list"
    /\ broadcast_room_list
    /\ Done(c)
    /\ UNCHANGED <<db_rooms, db_users, rooms, clients>>


(***************************************************************************)
(* handle_start_game.                                                      *)
(***************************************************************************)
\* the checks between find_one and the update: the error message, or None
StartError(room, username) ==
    IF room = NoRoom THEN "Room not found"
    ELSE IF room.creator # username THEN "Only the room creator can start the game"
    ELSE None

handle_start_game_find(c) ==
    /\ Idle(c)
    /\ LET username == clients[c].username
           rid == clients[c].room_id IN
       IF username = None \/ rid = None
       THEN Finish(c, ErrorReply("start_game", "You must be in a room to start the game"))
       ELSE IF StartError(db_rooms[rid], username) # None
       THEN Finish(c, ErrorReply("start_game", StartError(db_rooms[rid], username)))
       ELSE /\ pc' = [pc EXCEPT ![c] = "start_update"]
            /\ loc' = [loc EXCEPT ![c] = Local(rid, db_rooms[rid], None, FALSE)]
            /\ Quiet
    /\ UNCHANGED <<db_rooms, db_users, rooms, clients>>

handle_start_game_update(c) ==
    /\ pc[c] = "start_update"
    /\ db_rooms' = StoreSet(db_rooms, loc[c].room_id,
                     [game_started |-> TRUE, current_question |-> 0])
    /\ pc' = [pc EXCEPT ![c] = "start_mem"]
    /\ UNCHANGED <<db_users, rooms, clients, loc>>
    /\ Quiet

handle_start_game_mem(c) ==
    /\ pc[c] = "start_mem"
    /\ rooms' = CacheSet(rooms, loc[c].room_id,
                  [game_started |-> TRUE, current_question |-> 0])
    /\ Send(c, SuccessReply("start_game", "Game started!"))
    /\ pc' = [pc EXCEPT ![c] = "start_notify"]
    /\ UNCHANGED <<db_rooms, db_users, clients, loc>>

handle_start_game_notify(c) ==
    /\ pc[c] = "start_notify"
    /\ broadcast_room_update(loc[c].room_id)
    /\ Done(c)
    /\ UNCHANGED <<db_rooms, db_users, rooms, clients>>

(***************************************************************************)
(* handle_get_rooms: no check of the session.                              *)
(***************************************************************************)
handle_get_rooms(c) ==
    /\ Idle(c)
    /\ send_message(c, SuccessReply("get_rooms", None), active_rooms)
    /\ UNCHANGED <<db_rooms, db_users, rooms, clients, pc, loc>>

(***************************************************************************)
(* calculate_role.  The dicts option_count and role_mapping are written    *)
(* with the keys A..F in this order, which is their iteration order.       *)
(***************************************************************************)
Options == <<"A", "B", "C", "D", "E", "F">>
role_mapping ==
    [o \in {Options[i] : i \in 1..Len(Options)} |->
        CASE o = "A" -> "Barbarian / Monk (Melee DPS)"
          [] o = "B" -> "Fighter/Knight (Tank)"
          [] o = "C" -> "Rogue / Scout-Ranger (Stealth/Agile)"
          [] o = "D" -> "Gunman / Ranger (Ranged Physical)"
          [] o = "E" -> "Bard / Priest / Alchemist (Support/Healing)"
          [] o = "F" -> "Wizard / Druids / Necromancer / Elementalist / Summoner / Sorcerer / Warlock (Magical Combatants)"]

\* "for answer in answers: option_count[answer] += 1"
option_count(answers) ==
    [o \in DOMAIN role_mapping |-> Cardinality({i \in 1..Len(answers) : answers[i] = o})]

\* max(option_count, key=option_count.get): the first key, in iteration
\* order, whose count no other key exceeds
max_option(answers) ==
    LET count == option_count(answers)
        i == CHOOSE j \in 1..Len(Options) :
                /\ \A k \in 1..Len(Options) : count[Options[k]] <= count[Options[j]]
                /\ \A k \in 1..(j - 1) : count[Options[k]] < count[Options[j]]
    IN  Options[i]

\* [opt for opt, count in option_count.items() if count == max_count]
TiedWith(count, best, o) == count[o] = count[best]
tied_options(answers) ==
    LET count == option_count(answers)
        best == max_option(answers)
        Tied(o) == TiedWith(count, best, o)
    IN  SelectSeq(Options, Tied)

\* calculate_role choosing the last of the tied options
calculate_role_LastTied(answers) ==
    LET tied == tied_options(answers)
        chosen_option == IF Len(tied) > 1 THEN tied[Len(tied)] ELSE max_option(answers)
    IN  role_mapping[chosen_option]

calculate_role(answers) ==
    LET tied == tied_options(answers)
        chosen_option == IF Len(tied) > 1 THEN tied[1] ELSE max_option(answers)
    IN  role_mapping[chosen_option]

(***************************************************************************)
(* handle_submit_answer.  question_index counts from 0.                    *)
(***************************************************************************)
\* the player's list after "while len(l) <= question_index: l.append(None)"
\* and "l[question_index] = answer"
recorded(l, question_index, answer) ==
    LET padded == IF Len(l) <= question_index
                  THEN l \o [i \in 1..(question_index + 1 - Len(l)) |-> None]
                  ELSE l
    IN  [padded EXCEPT ![question_index + 1] = answer]

\* player_answers of the document read, with the answer recorded
updated_answers(room, username, question_index, answer) ==
    DictSet(room.player_answers, username,
            recorded(DictGet(room.player_answers, username, <<>>), question_index, answer))

\* "len(player_answers[username]) == 5 and all(player_answers[username])"
all_answered(l) == Len(l) = 5 /\ \A i \in 1..Len(l) : l[i] # None

\* what the handler running on connection c has recorded for its user
answers_of(c) ==
    updated_answers(loc[c].room, clients[c].username, loc[c].arg[1], loc[c].arg[2])

assigned_roles(c) ==
    DictSet(loc[c].room.player_roles, clients[c].username,
            calculate_role(answers_of(c)[clients[c].username]))

handle_submit_answer_find(c, question_index, answer) ==
    /\ Idle(c)
    /\ LET username == clients[c].username
           rid == clients[c].room_id IN
       IF username = None \/ rid = None
       THEN Finish(c, ErrorReply("submit_answer", "Missing answer data"))
       ELSE IF db_rooms[rid] = NoRoom
       THEN Finish(c, ErrorReply("submit_answer", "Room not found"))
       ELSE /\ pc' = [pc EXCEPT ![c] = "answer_update"]
            /\ loc' = [loc EXCEPT ![c] =
                         Local(rid, db_rooms[rid], <<question_index, answer>>, FALSE)]
            /\ Quiet
    /\ UNCHANGED <<db_rooms, db_users, rooms, clients>>

handle_submit_answer_update(c) ==
    /\ pc[c] = "answer_update"
    /\ db_rooms' = StoreSet(db_rooms, loc[c].room_id, [player_answers |-> answers_of(c)])
    /\ pc' = [pc EXCEPT ![c] = "answer_mem"]
    /\ UNCHANGED <<db_users, rooms, clients, loc>>
    /\ Quiet

handle_submit_answer_mem(c) ==
    /\ pc[c] = "answer_mem"
    /\ rooms' = CacheSet(rooms, loc[c].room_id, [player_answers |-> answers_of(c)])
    /\ Send(c, SuccessReply("submit_answer", "Answer submitted successfully!"))
    /\ IF all_answered(answers_of(c)[clients[c].username])
       THEN pc' = [pc EXCEPT ![c] = "role_update"] /\ UNCHANGED loc
       ELSE Done(c)
    /\ UNCHANGED <<db_rooms, db_users, clients>>

\* "option_count[answer] += 1" raises KeyError for an answer that is not one
\* of the keys A..F
KeyError(answers) == \E i \in 1..Len(answers) : answers[i] \notin DOMAIN role_mapping

\* calculate_role and the store write of the role; the exception of
\* calculate_role goes to the except clause of the handler
handle_submit_answer_role_update(c) ==
    /\ pc[c] = "role_update"
    /\ IF KeyError(answers_of(c)[clients[c].username])
       THEN /\ Finish(c, ErrorReply("submit_answer", "Failed to submit answer"))
            /\ UNCHANGED <<db_rooms, db_users, rooms, clients>>
       ELSE /\ db_rooms' = StoreSet(db_rooms, loc[c].room_id,
                               [player_roles |-> assigned_roles(c)])
            /\ pc' = [pc EXCEPT ![c] = "role_mem"]
            /\ UNCHANGED <<db_users, rooms, clients, loc>>
            /\ Quiet

role_assigned(role) ==
    [request |-> "submit_answer", action |-> "role_assigned",
     status |-> "success", message |-> role]

handle_submit_answer_role_mem(c) ==
    /\ pc[c] = "role_mem"
    /\ rooms' = CacheSet(rooms, loc[c].room_id, [player_roles |-> assigned_roles(c)])
    /\ Finish(c, role_assigned(assigned_roles(c)[clients[c].username]))
    /\ UNCHANGED <<db_rooms, db_users, clients>>

(***************************************************************************)
(* handle_select_character.                                                *)
(***************************************************************************)
\* the checks between find_one and the update: the error message, or None
SelectError(room, username, character) ==
    IF room = NoRoom THEN "Room not found"
    ELSE IF character \in DictValues(room.player_characters)
    THEN "This character is already taken"
    ELSE IF DictGet(room.character_locked, username, FALSE)
    THEN "Your character is already locked and cannot be changed"
    ELSE None

\* handle_select_character_find writing the user's profile before its checks
handle_select_character_find_ProfileFirst(c, character) ==
    /\ Idle(c)
    /\ LET username == clients[c].username
           rid == clients[c].room_id IN
       IF username = None \/ rid = None
       THEN /\ Finish(c, ErrorReply("select_character", "Missing character data"))
            /\ UNCHANGED db_users
       ELSE IF SelectError(db_rooms[rid], username, character) # None
       THEN /\ Finish(c, ErrorReply("select_character", SelectError(db_rooms[rid], username, character)))
            /\ db_users' = [db_users EXCEPT ![username].character = character]
       ELSE /\ pc' = [pc EXCEPT ![c] = "select_update"]
            /\ loc' = [loc EXCEPT ![c] = Local(rid, db_rooms[rid], character, FALSE)]
            /\ Quiet
            /\ UNCHANGED db_users
    /\ UNCHANGED <<db_rooms, rooms, clients>>

handle_select_character_find(c, character) ==
    /\ Idle(c)
    /\ LET username == clients[c].username
           rid == clients[c].room_id IN
       IF username = None \/ rid = None
       THEN Finish(c, ErrorReply("select_character", "Missing character data"))
       ELSE IF SelectError(db_rooms[rid], username, character) # None
       THEN Finish(c, ErrorReply("select_character", SelectError(db_rooms[rid], username, character)))
       ELSE /\ pc' = [pc EXCEPT ![c] = "select_update"]
            /\ loc' = [loc EXCEPT ![c] = Local(rid, db_rooms[rid], character, FALSE)]
            /\ Quiet
    /\ UNCHANGED <<db_rooms, db_users, rooms, clients>>

\* player_characters[username] = character, on the dict of the document read
assigned_characters(room, username, character) ==
    DictSet(room.player_characters, username, character)

handle_select_character_update(c) ==
    /\ pc[c] = "select_update"
    /\ db_rooms' = StoreSet(db_rooms, loc[c].room_id,
                     [player_characters |->
                        assigned_characters(loc[c].room, clients[c].username, loc[c].arg)])
    /\ pc' = [pc EXCEPT ![c] = "select_mem"]
    /\ UNCHANGED <<db_users, rooms, clients, loc>>
    /\ Quiet

handle_select_character_mem(c) ==
    /\ pc[c] = "select_mem"
    /\ rooms' = CacheSet(rooms, loc[c].room_id,
                  [player_characters |->
                     assigned_characters(loc[c].room, clients[c].username, loc[c].arg)])
    /\ Send(c,
                   SuccessReply("select_character", loc[c].arg))
    /\ pc' = [pc EXCEPT ![c] = "select_user"]
    /\ UNCHANGED <<db_rooms, db_users, clients, loc>>

handle_select_character_user(c) ==
    /\ pc[c] = "select_user"
    /\ db_users' = [db_users EXCEPT ![clients[c].username].character = loc[c].arg]
    /\ pc' = [pc EXCEPT ![c] = "select_notify"]
    /\ Quiet
    /\ UNCHANGED <<db_rooms, rooms, clients, loc>>

handle_select_character_notify(c) ==
    /\ pc[c] = "select_notify"
    /\ broadcast_room_update(loc[c].room_id)
    /\ Done(c)
    /\ UNCHANGED <<db_rooms, db_users, rooms, clients>>

(***************************************************************************)
(* handle_lock_character.                                                  *)
(***************************************************************************)
handle_lock_character_find(c) ==
    /\ Idle(c)
    /\ LET username == clients[c].username
           rid == clients[c].room_id IN
       IF username = None \/ rid = None
       THEN Finish(c, ErrorReply("lock_character", "Missing data for character lock"))
       ELSE IF db_rooms[rid] = NoRoom
       THEN Finish(c, ErrorReply("lock_character", "Room not found"))
       ELSE IF username \notin DOMAIN db_rooms[rid].player_characters
       THEN Finish(c, ErrorReply("lock_character", "You must select a character before locking it"))
       ELSE /\ pc' = [pc EXCEPT ![c] = "lock_update"]
            /\ loc' = [loc EXCEPT ![c] = Local(rid, db_rooms[rid], None, FALSE)]
            /\ Quiet
    /\ UNCHANGED <<db_rooms, db_users, rooms, clients>>

\* character_locked[username] = True, on the dict of the document read
locked_flags(room, username) == DictSet(room.character_locked, username, TRUE)

handle_lock_character_update(c) ==
    /\ pc[c] = "lock_update"
    /\ db_rooms' = StoreSet(db_rooms, loc[c].room_id,
                     [character_locked |-> locked_flags(loc[c].room, clients[c].username)])
    /\ pc' = [pc EXCEPT ![c] = "lock_mem"]
    /\ UNCHANGED <<db_users, rooms, clients, loc>>
    /\ Quiet

handle_lock_character_mem(c) ==
    /\ pc[c] = "lock_mem"
    /\ rooms' = CacheSet(rooms, loc[c].room_id,
                  [character_locked |-> locked_flags(loc[c].room, clients[c].username)])
    /\ clients' = [clients EXCEPT ![c].character_locked = TRUE]
    /\ Send(c, SuccessReply("lock_character", "Character locked!"))
    /\ pc' = [pc EXCEPT ![c] = "lock_notify"]
    /\ UNCHANGED <<db_rooms, db_users, loc>>

handle_lock_character_notify(c) ==
    /\ pc[c] = "lock_notify"
    /\ broadcast_room_update(loc[c].room_id)
    /\ Done(c)
    /\ UNCHANGED <<db_rooms, db_users, rooms, clients>>


(***************************************************************************)
(* handle_leave_room, called for a leave_room request and by               *)
(* disconnect_client (disc) when the closing session is in a room.         *)
(***************************************************************************)
\* del self.clients[client_id] at the end of disconnect_client
Close(c) ==
    /\ clients' = [clients EXCEPT ![c] = NoClient]
    /\ pc' = [pc EXCEPT ![c] = "closed"]
    /\ loc' = [loc EXCEPT ![c] = NoLocal]
    /\ Quiet

\* the handler returns r; a disconnecting thread goes on to remove its session
Return(c, disc, r) ==
    IF disc THEN Close(c) ELSE Finish(c, r) /\ UNCHANGED clients

left_players(room, username) == ListRemove(room.players, username)
left_characters(room, username) == DictDel(room.player_characters, username)
left_locked(room, username) == DictDel(room.character_locked, username)

LeaveFind(c, disc) ==
    /\ LET username == clients[c].username
           rid == clients[c].room_id IN
       IF username = None \/ rid = None
       THEN Return(c, disc, ErrorReply("leave_room", "Not in a room"))
       ELSE IF db_rooms[rid] = NoRoom
       THEN Return(c, disc, ErrorReply("leave_room", "Room not found"))
       ELSE /\ pc' = [pc EXCEPT ![c] = "leave_update"]
            /\ loc' = [loc EXCEPT ![c] = Local(rid, db_rooms[rid], None, disc)]
            /\ UNCHANGED <<clients>>
            /\ Quiet
    /\ UNCHANGED <<db_rooms, db_users, rooms>>

handle_leave_room_find(c) ==
    /\ Idle(c)
    /\ LeaveFind(c, FALSE)

handle_leave_room_update(c) ==
    /\ pc[c] = "leave_update"
    /\ LET rid == loc[c].room_id
           username == clients[c].username IN
       db_rooms' = IF left_players(loc[c].room, username) = <<>>
                   THEN [db_rooms EXCEPT ![rid] = NoRoom]
                   ELSE StoreSet(db_rooms, rid,
                          [players           |-> left_players(loc[c].room, username),
                           player_characters |-> left_characters(loc[c].room, username),
                           character_locked  |-> left_locked(loc[c].room, username)])
    /\ pc' = [pc EXCEPT ![c] = "leave_mem"]
    /\ UNCHANGED <<db_users, rooms, clients, loc>>
    /\ Quiet

handle_leave_room_mem(c) ==
    /\ pc[c] = "leave_mem"
    /\ LET rid == loc[c].room_id
           username == clients[c].username IN
       rooms' = IF left_players(loc[c].room, username) = <<>>
                THEN [rooms EXCEPT ![rid] = NoRoom]
                ELSE CacheSet(rooms, rid,
                       [players           |-> left_players(loc[c].room, username),
                        player_characters |-> left_characters(loc[c].room, username),
                        character_locked  |-> left_locked(loc[c].room, username)])
    /\ clients' = [clients EXCEPT ![c].room_id = None,
                                  ![c].character_locked = FALSE]
    \* the peer of a disconnecting session has gone: nobody reads the response
    /\ IF loc[c].disconnecting
       THEN Quiet
       ELSE Send(c, SuccessReply("leave_room", "Left the room successfully"))
    /\ pc' = [pc EXCEPT ![c] =
                IF left_players(loc[c].room, clients[c].username) = <<>>
                THEN "leave_list" ELSE "leave_notify"]
    /\ UNCHANGED <<db_rooms, db_users, loc>>

\* "if players: self.broadcast_room_update(room_id)"
handle_leave_room_notify(c) ==
    /\ pc[c] = "leave_notify"
    /\ broadcast_room_update(loc[c].room_id)
    /\ pc' = [pc EXCEPT ![c] = "leave_list"]
    /\ UNCHANGED <<db_rooms, db_users, rooms, clients, loc>>

handle_leave_room_list(c) ==
    /\ pc[c] = "leave_list"
    /\ IF loc[c].disconnecting
       THEN /\ clients' = [clients EXCEPT ![c] = NoClient]
            /\ pc' = [pc EXCEPT ![c] = "closed"]
            /\ loc' = [loc EXCEPT ![c] = NoLocal]
       ELSE Done(c) /\ UNCHANGED clients
    /\ broadcast_room_list
    /\ UNCHANGED <<db_rooms, db_users, rooms>>

(***************************************************************************)
(* handle_get_room_status: reads the room of the session, whoever is       *)
(* signed in.                                                              *)
(***************************************************************************)
room_status_response ==
    [request |-> "get_room_status", action |-> "room_status_response",
     status |-> "success", message |-> None]

handle_get_room_status(c) ==
    /\ Idle(c)
    /\ LET rid == clients[c].room_id IN
       IF rid = None
       THEN Send(c, ErrorReply("get_room_status", "Not in a room"))
       ELSE IF db_rooms[rid] = NoRoom
       THEN Send(c, ErrorReply("get_room_status", "Room not found"))
       ELSE send_message(c, room_status_response, {db_rooms[rid]})
    /\ UNCHANGED <<db_rooms, db_users, rooms, clients, pc, loc>>

(***************************************************************************)
(* The read loop of handle_client ends (EOF): disconnect_client.           *)
(***************************************************************************)
disconnect_client(c) ==
    /\ Idle(c)
    /\ IF clients[c].room_id # None
       THEN LeaveFind(c, TRUE)
       ELSE Close(c) /\ UNCHANGED <<db_rooms, db_users, rooms>>

(***************************************************************************)
(* The steps of the server, by concern.  The connections, users and room   *)
(* ids are those of the initial state.                                     *)
(***************************************************************************)
ConnIds == DOMAIN clients
Registered == DOMAIN db_users
Codes == DOMAIN db_rooms

Connection ==
    \/ \E c \in ConnIds : handle_client(c)
    \/ \E c \in ConnIds : disconnect_client(c)

SignIn ==
    \E c \in ConnIds, u \in Registered, ok \in BOOLEAN : handle_sign_in(c, u, ok)

CreateRoom ==
    \/ \E c \in ConnIds, rid \in Codes : handle_create_room_insert(c, rid)
    \/ \E c \in ConnIds : handle_create_room_user(c)
    \/ \E c \in ConnIds : handle_create_room_mem(c)
    \/ \E c \in ConnIds : handle_create_room_list(c)

JoinRoom ==
    \/ \E c \in ConnIds, rid \in Codes : handle_join_room_find(c, rid)
    \/ \E c \in ConnIds : handle_join_room_update(c)
    \/ \E c \in ConnIds : handle_join_room_user(c)
    \/ \E c \in ConnIds : handle_join_room_mem(c)
    \/ \E c \in ConnIds : handle_join_room_notify(c)
    \/ \E c \in ConnIds : handle_join_room_list(c)

LeaveRoom ==
    \/ \E c \in ConnIds : handle_leave_room_find(c)
    \/ \E c \in ConnIds : handle_leave_room_update(c)
    \/ \E c \in ConnIds : handle_leave_room_mem(c)
    \/ \E c \in ConnIds : handle_leave_room_notify(c)
    \/ \E c \in ConnIds : handle_leave_room_list(c)

GetRooms ==
    \E c \in ConnIds : handle_get_rooms(c)

\* the answers a client sends: questions 0 .. NumQuestions - 1, the first
\* NumOptions letters
Questions == 0..(NumQuestions - 1)
Letters == {Options[i] : i \in 1..NumOptions}
\* submit_answer for the questions qs with the letters ls, up to its response
SubmitAnswerOf(qs, ls) ==
    \/ \E c \in ConnIds, q \in qs, a \in ls : handle_submit_answer_find(c, q, a)
    \/ \E c \in ConnIds : handle_submit_answer_update(c)
    \/ \E c \in ConnIds : handle_submit_answer_mem(c)

\* the rest of submit_answer once the player's answers are complete
AssignRole ==
    \/ \E c \in ConnIds : handle_submit_answer_role_update(c)
    \/ \E c \in ConnIds : handle_submit_answer_role_mem(c)

SubmitAnswer == SubmitAnswerOf(Questions, Letters) \/ AssignRole

RoomStatus ==
    \E c \in ConnIds : handle_get_room_status(c)

Disconnect ==
    \E c \in ConnIds : disconnect_client(c)

StartGame ==
    \/ \E c \in ConnIds : handle_start_game_find(c)
    \/ \E c \in ConnIds : handle_start_game_update(c)
    \/ \E c \in ConnIds : handle_start_game_mem(c)
    \/ \E c \in ConnIds : handle_start_game_notify(c)

SelectCharacter ==
    \/ \E c \in ConnIds, ch \in Characters : handle_select_character_find(c, ch)
    \/ \E c \in ConnIds : handle_select_character_update(c)
    \/ \E c \in ConnIds : handle_select_character_mem(c)
    \/ \E c \in ConnIds : handle_select_character_user(c)
    \/ \E c \in ConnIds : handle_select_character_notify(c)

LockCharacter ==
    \/ \E c \in ConnIds : handle_lock_character_find(c)
    \/ \E c \in ConnIds : handle_lock_character_update(c)
    \/ \E c \in ConnIds : handle_lock_character_mem(c)
    \/ \E c \in ConnIds : handle_lock_character_notify(c)

\* the state after construction, for the given connections, users and room ids:
\* no connection, an empty cache, a store that holds the users and no room
Constructed(conns, users, rids) ==
    /\ db_rooms = [r \in rids |-> NoRoom]
    /\ db_users = [u \in users |-> NewUser]
    /\ rooms = [r \in rids |-> NoRoom]
    /\ clients = [c \in conns |-> NoClient]
    /\ pc = [c \in conns |-> "closed"]
    /\ loc = [c \in conns |-> NoLocal]
    /\ sent = NoReply
    /\ pushed = {}

(***************************************************************************)
(* Spec: the server from construction, every handler.                      *)
(***************************************************************************)
Init == Constructed(Conns, Users, RoomIds)
Next ==
    \/ Connection \/ SignIn \/ CreateRoom \/ JoinRoom \/ LeaveRoom
    \/ StartGame \/ SelectCharacter \/ LockCharacter \/ RoomStatus
    \/ GetRooms \/ SubmitAnswer
Spec == Init /\ [][Next]_vars

\* a session signed in as username, in room rid (or None)
Session(username, rid) ==
    [username |-> username, room_id |-> rid, character_locked |-> FALSE]

\* the room after create_room by creator and join_room by each of joiners, in order
RoomOf(creator, joiners) ==
    [NewRoom(creator) EXCEPT !.players = <<creator>> \o joiners]

(***************************************************************************)
(* SpecRooms: the room lifecycle (create, join, leave) of the connections,  *)
(* from the state in which each connection has been accepted and has       *)
(* signed in as its own user, and no room exists.                          *)
(***************************************************************************)
InitRooms ==
    /\ db_rooms = [r \in RoomIds |-> NoRoom]
    /\ db_users = [u \in Users |-> NewUser]
    /\ rooms = [r \in RoomIds |-> NoRoom]
    /\ clients = [c \in Conns |-> Session(UserNames[c], None)]
    /\ pc = [c \in Conns |-> "idle"]
    /\ loc = [c \in Conns |-> NoLocal]
    /\ sent = NoReply
    /\ pushed = {}
NextRooms == CreateRoom \/ JoinRoom \/ LeaveRoom
SpecRooms == InitRooms /\ [][NextRooms]_vars


(***************************************************************************)
(* SpecCapacity: joins and leaves around a room that is nearly full.  The  *)
(* room was created by the first user and joined by the next Seated - 1    *)
(* users; the last of them still has its connection (1), the others were   *)
(* earlier sign-ins of that connection.  Connections 2.. are signed in as  *)
(* further users, outside the room.                                        *)
(***************************************************************************)
CapacityRoom == RoomCodes[1]
CapacityConns == 1..(1 + Joiners)
CapacityUsers == {UserNames[i] : i \in 1..(Seated + Joiners)}
InitCapacity ==
    /\ db_rooms = [r \in {CapacityRoom} |->
                     RoomOf(UserNames[1], [i \in 1..(Seated - 1) |-> UserNames[i + 1]])]
    /\ db_users = [u \in CapacityUsers |->
                     IF \E i \in 1..Seated : u = UserNames[i]
                     THEN [NewUser EXCEPT !.last_room = CapacityRoom] ELSE NewUser]
    /\ rooms = db_rooms
    /\ clients = [c \in CapacityConns |->
                     IF c = 1 THEN Session(UserNames[Seated], CapacityRoom)
                     ELSE Session(UserNames[Seated + c - 1], None)]
    /\ pc = [c \in CapacityConns |-> "idle"]
    /\ loc = [c \in CapacityConns |-> NoLocal]
    /\ sent = NoReply
    /\ pushed = {}
NextCapacity == JoinRoom \/ LeaveRoom
SpecCapacity == InitCapacity /\ [][NextCapacity]_vars

(***************************************************************************)
(* SpecChars: character selection in a room.  The first connection's user  *)
(* has created the room and every other connection's user has joined it.   *)
(***************************************************************************)
CharsRoom == RoomCodes[1]
InitChars ==
    /\ db_rooms = [r \in {CharsRoom} |->
                     RoomOf(UserNames[1], [i \in 1..(NumConns - 1) |-> UserNames[i + 1]])]
    /\ db_users = [u \in Users |-> [NewUser EXCEPT !.last_room = CharsRoom]]
    /\ rooms = db_rooms
    /\ clients = [c \in Conns |-> Session(UserNames[c], CharsRoom)]
    /\ pc = [c \in Conns |-> "idle"]
    /\ loc = [c \in Conns |-> NoLocal]
    /\ sent = NoReply
    /\ pushed = {}
NextChars == SelectCharacter \/ LockCharacter \/ LeaveRoom
SpecChars == InitChars /\ [][NextChars]_vars


(***************************************************************************)
(* SpecLifecycle: one room code from creation to deletion.  Both           *)
(* connections have signed in; they create, join, leave, ask for the room  *)
(* status and disconnect.                                                  *)
(***************************************************************************)
LifecycleRoom == RoomCodes[1]
InitLifecycle ==
    /\ db_rooms = [r \in {LifecycleRoom} |-> NoRoom]
    /\ db_users = [u \in Users |-> NewUser]
    /\ rooms = [r \in {LifecycleRoom} |-> NoRoom]
    /\ clients = [c \in Conns |-> Session(UserNames[c], None)]
    /\ pc = [c \in Conns |-> "idle"]
    /\ loc = [c \in Conns |-> NoLocal]
    /\ sent = NoReply
    /\ pushed = {}
NextLifecycle == CreateRoom \/ JoinRoom \/ LeaveRoom \/ RoomStatus \/ Disconnect
SpecLifecycle == InitLifecycle /\ [][NextLifecycle]_vars

(***************************************************************************)
(* SpecStart: starting the game.  The first connection's user has created  *)
(* the room and every other connection's user has joined it; the sessions  *)
(* start the game, leave, join again and create the room anew.             *)
(***************************************************************************)
NextStart == StartGame \/ LeaveRoom \/ JoinRoom \/ CreateRoom
SpecStart == InitChars /\ [][NextStart]_vars

(***************************************************************************)
(* SpecConflicts: requests that meet a state conflict.  The room is full:  *)
(* it was created by the first user and joined by the next three.          *)
(* Connection 1 is the session of its second member, who selects and locks *)
(* a character and asks to join and to start; connection 2 is signed in as *)
(* a fifth user, outside the room.  No join_room or start_game passes its  *)
(* checks here, so only the step that receives those requests is taken.    *)
(***************************************************************************)
ConflictsRoom == RoomCodes[1]
ConflictsConns == 1..2
ConflictsUsers == {UserNames[i] : i \in 1..(max_players + 1)}
InitConflicts ==
    /\ db_rooms = [r \in {ConflictsRoom} |->
                     RoomOf(UserNames[1], [i \in 1..(max_players - 1) |-> UserNames[i + 1]])]
    /\ db_users = [u \in ConflictsUsers |->
                     IF u = UserNames[max_players + 1] THEN NewUser
                     ELSE [NewUser EXCEPT !.last_room = ConflictsRoom]]
    /\ rooms = db_rooms
    /\ clients = [c \in ConflictsConns |->
                     IF c = 1 THEN Session(UserNames[2], ConflictsRoom)
                     ELSE Session(UserNames[max_players + 1], None)]
    /\ pc = [c \in ConflictsConns |-> "idle"]
    /\ loc = [c \in ConflictsConns |-> NoLocal]
    /\ sent = NoReply
    /\ pushed = {}
JoinRequest == \E c \in ConnIds, rid \in Codes : handle_join_room_find(c, rid)
StartRequest == \E c \in ConnIds : handle_start_game_find(c)
NextConflicts == JoinRequest \/ StartRequest \/ SelectCharacter \/ LockCharacter
SpecConflicts == InitConflicts /\ [][NextConflicts]_vars

(***************************************************************************)
(* SpecAuth: sessions that never sign in.  The connections are accepted,   *)
(* closed and accepted again and send every kind of request; the store     *)
(* holds either no room or a room its creator left behind by creating a    *)
(* second one.  No handler but handle_get_rooms gets past its first step.  *)
(***************************************************************************)
AuthRoom == RoomCodes[1]
AuthConns == 1..(NumConns + 1)
\* connection c sends a request of one of the kinds that need a signed-in user
Request(c) ==
    \/ \E rid \in Codes : handle_create_room_insert(c, rid)
    \/ \E rid \in Codes : handle_join_room_find(c, rid)
    \/ handle_get_rooms(c)
    \/ handle_start_game_find(c)
    \/ \E q \in Questions, a \in Letters : handle_submit_answer_find(c, q, a)
    \/ \E ch \in Characters : handle_select_character_find(c, ch)
    \/ handle_lock_character_find(c)
    \/ handle_leave_room_find(c)
    \/ handle_get_room_status(c)
InitAuth ==
    /\ db_rooms \in {[r \in {AuthRoom} |-> NoRoom],
                      [r \in {AuthRoom} |-> NewRoom(UserNames[1])]}
    /\ db_users = [u \in Users |-> NewUser]
    /\ rooms = db_rooms
    /\ clients = [c \in AuthConns |-> NewClient]
    /\ pc = [c \in AuthConns |-> "idle"]
    /\ loc = [c \in AuthConns |-> NoLocal]
    /\ sent = NoReply
    /\ pushed = {}
Requests == \E c \in ConnIds : Request(c)
NextAuth == Connection \/ Requests
SpecAuth == InitAuth /\ [][NextAuth]_vars

(***************************************************************************)
(* SpecIdentity: one connection that changes its user.  It has signed in   *)
(* as the first user and created the room; it signs in again, as any       *)
(* registered user, and sends the room-scoped requests (for the quiz, the  *)
(* answer to the first question only).                                     *)
(***************************************************************************)
IdentityRoom == RoomCodes[1]
InitIdentity ==
    /\ db_rooms = [r \in {IdentityRoom} |-> NewRoom(UserNames[1])]
    /\ db_users = [u \in Users |->
                     IF u = UserNames[1] THEN [NewUser EXCEPT !.last_room = IdentityRoom]
                     ELSE NewUser]
    /\ rooms = db_rooms
    /\ clients = [c \in {1} |-> Session(UserNames[1], IdentityRoom)]
    /\ pc = [c \in {1} |-> "idle"]
    /\ loc = [c \in {1} |-> NoLocal]
    /\ sent = NoReply
    /\ pushed = {}
NextIdentity ==
    \/ SignIn \/ StartGame \/ SelectCharacter \/ LockCharacter
    \/ SubmitAnswerOf({0}, {Options[1]})
SpecIdentity == InitIdentity /\ [][NextIdentity]_vars

(***************************************************************************)
(* SpecRole: the last answer of a quiz.  The first connection's user is    *)
(* alone in the room it created and has answered the first four questions, *)
(* each with any of the six letters; it answers the fifth question, and    *)
(* answers it again, with any letter.                                      *)
(***************************************************************************)
RoleRoom == RoomCodes[1]
AllLetters == {Options[i] : i \in 1..Len(Options)}
InitRole ==
    /\ \E first \in [1..4 -> AllLetters] :
          db_rooms = [r \in {RoleRoom} |->
                        [NewRoom(UserNames[1]) EXCEPT
                            !.game_started = TRUE,
                            !.player_answers = DictSet(EmptyDict, UserNames[1], first)]]
    /\ db_users = [u \in {UserNames[1]} |-> [NewUser EXCEPT !.last_room = RoleRoom]]
    /\ rooms = db_rooms
    /\ clients = [c \in {1} |-> Session(UserNames[1], RoleRoom)]
    /\ pc = [c \in {1} |-> "idle"]
    /\ loc = [c \in {1} |-> NoLocal]
    /\ sent = NoReply
    /\ pushed = {}
NextRole == SubmitAnswerOf({4}, AllLetters) \/ AssignRole
SpecRole == InitRole /\ [][NextRole]_vars

(***************************************************************************)
(* SpecQuiz: the end of the quiz in a room of two.  The first connection's *)
(* user has created the room, the other connection's user has joined it,   *)
(* and each has answered the first four questions, with the letters in     *)
(* turn; they answer the fifth question, and answer it again.              *)
(***************************************************************************)
QuizRoom == RoomCodes[1]
QuizPrefix == [i \in 1..4 |-> Options[((i - 1) % NumOptions) + 1]]
InitQuiz ==
    /\ db_rooms = [r \in {QuizRoom} |->
                     [RoomOf(UserNames[1], [i \in 1..(NumConns - 1) |-> UserNames[i + 1]])
                        EXCEPT !.game_started = TRUE,
                               !.player_answers = [u \in Users |-> QuizPrefix]]]
    /\ db_users = [u \in Users |-> [NewUser EXCEPT !.last_room = QuizRoom]]
    /\ rooms = db_rooms
    /\ clients = [c \in Conns |-> Session(UserNames[c], QuizRoom)]
    /\ pc = [c \in Conns |-> "idle"]
    /\ loc = [c \in Conns |-> NoLocal]
    /\ sent = NoReply
    /\ pushed = {}
NextQuiz == SubmitAnswerOf({4}, Letters) \/ AssignRole
SpecQuiz == InitQuiz /\ [][NextQuiz]_vars

(***************************************************************************)
(* Properties.                                                             *)
(***************************************************************************)
Stored(rid) == rid \in DOMAIN db_rooms /\ db_rooms[rid] # NoRoom
Cached(rid) == rid \in DOMAIN rooms /\ rooms[rid] # NoRoom
UserOf(c) == clients[c].username

\* C1: every stored (and every cached) room has at most max_players players,
\* whatever the interleaving of the join_room and leave_room handlers.
C1_PlayersWithinCapacity ==
    /\ \A rid \in DOMAIN db_rooms :
          Stored(rid) => Len(db_rooms[rid].players) <= db_rooms[rid].max_players
    /\ \A rid \in DOMAIN rooms :
          Cached(rid) => Len(rooms[rid].players) <= rooms[rid].max_players

\* the room is full while another connection, which read it before it filled,
\* is about to write its own join
C1_Witness ==
    \E c, d \in DOMAIN clients :
        /\ c # d
        /\ pc[c] = "join_update"
        /\ pc[d] \in {"join_user", "join_mem"}
        /\ loc[c].room_id = loc[d].room_id
        /\ Stored(loc[c].room_id)
        /\ Len(db_rooms[loc[c].room_id].players) = max_players

\* C4: when the join_room handlers of two different users overlap and both
\* answer success, both users are in the stored players list afterwards.
\* (Connection d has been answered, connection c is being answered; c read the
\* room before d's write, so the two handlers overlapped.)
C4_BothJoinsStored ==
    [][\A c, d \in DOMAIN clients :
          ( /\ c # d
            /\ pc[c] = "join_mem" /\ pc'[c] = "join_notify"
            /\ pc[d] = "idle"
            /\ clients[d].room_id = loc[c].room_id
            /\ UserOf(d) # UserOf(c)
            /\ ~InList(UserOf(d), loc[c].room.players) )
          => LET rid == loc[c].room_id IN
             /\ db_rooms'[rid] # NoRoom
             /\ InList(UserOf(c), db_rooms'[rid].players)
             /\ InList(UserOf(d), db_rooms'[rid].players)]_vars

\* C5: a username is in the players list of at most one stored room.
C5_OneRoomPerUser ==
    \A r1, r2 \in DOMAIN db_rooms :
        (Stored(r1) /\ Stored(r2) /\ r1 # r2) =>
            \A u \in DOMAIN db_users :
                ~(InList(u, db_rooms[r1].players) /\ InList(u, db_rooms[r2].players))

Holds(rid, u) == DictGet(db_rooms[rid].player_characters, u, None)
\* the stored lock flag of user u in room rid
Locked(rid, u) == DictGet(db_rooms[rid].character_locked, u, FALSE)

\* C2: no two usernames map to the same character in a room's stored
\* player_characters; and no select_character is written for a character that
\* another player holds at that moment: such a request fails and the holder's
\* assignment stays as it is.
C2_CharacterExclusive ==
    /\ [](\A rid \in DOMAIN db_rooms : Stored(rid) =>
            \A u, v \in DOMAIN db_rooms[rid].player_characters :
                u # v => db_rooms[rid].player_characters[u] #
                         db_rooms[rid].player_characters[v])
    /\ [][\A c \in DOMAIN clients :
            (pc[c] = "select_update" /\ pc'[c] = "select_mem" /\ Stored(loc[c].room_id))
            => LET rid == loc[c].room_id IN
               \A x \in DOMAIN db_users :
                  (x # UserOf(c) /\ Holds(rid, x) = loc[c].arg)
                  => /\ db_rooms'[rid] = db_rooms[rid]
                     /\ sent'.conn = c /\ sent'.status = "error"]_vars

\* C3: when the select_character handlers of two different members of a room
\* overlap, ask for different characters and both answer success, the stored
\* player_characters holds both assignments.  (Connection d has been answered
\* and is still in its handler; connection c is being answered.)
C3_BothSelectionsStored ==
    [][\A c, d \in DOMAIN clients :
          ( /\ c # d
            /\ pc[c] = "select_mem" /\ pc'[c] = "select_user"
            /\ pc[d] = "select_user"
            /\ loc[d].room_id = loc[c].room_id
            /\ UserOf(d) # UserOf(c)
            /\ loc[d].arg # loc[c].arg
            /\ Stored(loc[c].room_id) )
          => LET rid == loc[c].room_id IN
             /\ Holds(rid, UserOf(c)) = loc[c].arg
             /\ Holds(rid, UserOf(d)) = loc[d].arg]_vars

\* C6: once character_locked[u] is true in a room, player_characters[u] stays
\* as it is while the room exists (stated for the steps in which u stays in
\* the players list).
C6_LockedCharacterKept ==
    [][\A rid \in DOMAIN db_rooms, u \in DOMAIN db_users :
          ( /\ Stored(rid) /\ db_rooms'[rid] # NoRoom
            /\ Locked(rid, u)
            /\ InList(u, db_rooms[rid].players)
            /\ InList(u, db_rooms'[rid].players) )
          => /\ u \in DOMAIN db_rooms'[rid].player_characters
             /\ db_rooms'[rid].player_characters[u] = Holds(rid, u)]_vars

\* C7: once character_locked[u] is true in a room, it stays true while the room
\* exists (stated for the steps in which u stays in the players list).
C7_LockMonotonic ==
    [][\A rid \in DOMAIN db_rooms, u \in DOMAIN db_users :
          ( /\ Stored(rid) /\ db_rooms'[rid] # NoRoom
            /\ Locked(rid, u)
            /\ InList(u, db_rooms[rid].players)
            /\ InList(u, db_rooms'[rid].players) )
          => DictGet(db_rooms'[rid].character_locked, u, FALSE)]_vars

\* C8: after lock_character has succeeded on a session (its character_locked
\* flag is set, and is cleared only by leave_room), every select_character of
\* that session is answered "Your character is already locked and cannot be
\* changed".
C8_SelectAfterLockRejected ==
    [][\A c \in DOMAIN clients :
          ( /\ pc[c] = "idle"
            /\ clients[c].character_locked
            /\ \E ch \in Characters : handle_select_character_find(c, ch) )
          => /\ sent'.conn = c
             /\ sent'.status = "error"
             /\ sent'.message = "Your character is already locked and cannot be changed"]_vars

\* C9: select_character(u, ch) is answered "This character is already taken"
\* exactly when a player other than u holds ch in the stored room.
C9_TakenIffHeldByOther ==
    [][\A c \in DOMAIN clients, ch \in Characters :
          ( /\ pc[c] = "idle"
            /\ handle_select_character_find(c, ch)
            /\ UserOf(c) # None /\ clients[c].room_id # None
            /\ Stored(clients[c].room_id) )
          => ( (sent'.conn = c /\ sent'.message = "This character is already taken")
               <=> \E x \in DOMAIN db_users :
                      x # UserOf(c) /\ Holds(clients[c].room_id, x) = ch )]_vars

(***************************************************************************)
(* Joining a full room.                                                    *)
(***************************************************************************)
\* connection c, idle, sends join_room rid and is answered "Room is full";
\* players, its session's room id and its user's last_room stay as they were
RejectedAsFull(c, rid) ==
    /\ sent'.conn = c /\ sent'.status = "error" /\ sent'.message = "Room is full"
    /\ pc'[c] = "idle"
    /\ db_rooms'[rid] = db_rooms[rid]
    /\ clients'[c].room_id = clients[c].room_id
    /\ db_users'[UserOf(c)].last_room = db_users[UserOf(c)].last_room

\* C11 as stated: every join_room on a stored room with max_players members,
\* whoever sends it, is answered "Room is full" and changes nothing.
C11_AnyJoinOfFullRoomRejected ==
    [][\A c \in DOMAIN clients, rid \in DOMAIN db_rooms :
          ( /\ pc[c] = "idle" /\ handle_join_room_find(c, rid)
            /\ UserOf(c) # None
            /\ Stored(rid) /\ Len(db_rooms[rid].players) >= max_players )
          => RejectedAsFull(c, rid)]_vars

\* C11: a join_room on a stored room with max_players members, sent by a user
\* who is not one of them, is answered "Room is full"; players, the
\* requester's session room id and the requester's last_room are unchanged.
C11_FullRoomRejected ==
    [][\A c \in DOMAIN clients, rid \in DOMAIN db_rooms :
          ( /\ pc[c] = "idle" /\ handle_join_room_find(c, rid)
            /\ UserOf(c) # None
            /\ Stored(rid) /\ Len(db_rooms[rid].players) >= max_players
            /\ ~InList(UserOf(c), db_rooms[rid].players) )
          => RejectedAsFull(c, rid)]_vars

\* an outsider has just been refused by a room that holds max_players members
C11_Witness ==
    \E c \in DOMAIN clients, rid \in DOMAIN db_rooms :
        /\ sent.conn = c /\ sent.request = "join_room" /\ sent.message = "Room is full"
        /\ Stored(rid) /\ Len(db_rooms[rid].players) = max_players
        /\ ~InList(UserOf(c), db_rooms[rid].players)
        /\ clients[c].room_id = None

(***************************************************************************)
(* Deleting the room with its last member.                                 *)
(***************************************************************************)
\* no stored room has an empty players list
NoEmptyRoom ==
    \A rid \in DOMAIN db_rooms : Stored(rid) => db_rooms[rid].players # <<>>

\* the store write of a leave (leave_room or disconnect) by the only member
\* of the stored room removes the room
LastLeaveDeletes ==
    \A c \in DOMAIN clients :
        ( /\ pc[c] = "leave_update" /\ pc'[c] = "leave_mem"
          /\ Stored(loc[c].room_id)
          /\ db_rooms[loc[c].room_id].players = <<UserOf(c)>> )
        => db_rooms'[loc[c].room_id] = NoRoom

\* the handler that removed the room from the store removes it from the cache
LastLeaveUncaches ==
    \A c \in DOMAIN clients :
        ( /\ pc[c] = "leave_mem" /\ pc'[c] \in {"leave_list", "leave_notify"}
          /\ left_players(loc[c].room, UserOf(c)) = <<>> )
        => rooms'[loc[c].room_id] = NoRoom

\* join_room and get_room_status naming a room that is not stored are
\* answered "Room not found"
AbsentRoomNotFound ==
    /\ \A c \in DOMAIN clients, rid \in DOMAIN db_rooms :
          ( /\ pc[c] = "idle" /\ handle_join_room_find(c, rid)
            /\ UserOf(c) # None /\ ~Stored(rid) )
          => sent'.conn = c /\ sent'.message = "Room not found"
    /\ \A c \in DOMAIN clients :
          ( /\ pc[c] = "idle" /\ handle_get_room_status(c)
            /\ clients[c].room_id # None /\ ~Stored(clients[c].room_id) )
          => sent'.conn = c /\ sent'.message = "Room not found"

\* C12: when the only member of a room leaves (leave_room or disconnect) the
\* room is removed from the store and from the cache; a later join_room or
\* get_room_status naming it is answered "Room not found"; no stored room
\* ever has an empty players list.
C12_LastLeaveRemovesRoom ==
    /\ []NoEmptyRoom
    /\ [][LastLeaveDeletes]_vars
    /\ [][LastLeaveUncaches]_vars
    /\ [][AbsentRoomNotFound]_vars

(***************************************************************************)
(* Starting the game.                                                      *)
(***************************************************************************)
\* connection c writes game_started to the store for room rid
StartsGame(c, rid) ==
    /\ pc[c] = "start_update" /\ pc'[c] = "start_mem"
    /\ loc[c].room_id = rid

\* C13: the stored game_started flag of a room becomes true only by the
\* write of a start_game handler whose session's username is the room's
\* creator; a start_game sent by a member who is not the creator is answered
\* "Only the room creator can start the game" and leaves game_started and
\* current_question as they were.
C13_OnlyCreatorStarts ==
    [][ /\ \A rid \in DOMAIN db_rooms :
              ( /\ Stored(rid) /\ ~db_rooms[rid].game_started
                /\ db_rooms'[rid] # NoRoom /\ db_rooms'[rid].game_started )
              => \E c \in DOMAIN clients :
                    StartsGame(c, rid) /\ UserOf(c) = db_rooms[rid].creator
        /\ \A c \in DOMAIN clients :
              ( /\ pc[c] = "idle" /\ handle_start_game_find(c)
                /\ clients[c].room_id # None /\ Stored(clients[c].room_id)
                /\ InList(UserOf(c), db_rooms[clients[c].room_id].players)
                /\ UserOf(c) # db_rooms[clients[c].room_id].creator )
              => /\ sent'.conn = c /\ sent'.status = "error"
                 /\ sent'.message = "Only the room creator can start the game"
                 /\ pc'[c] = "idle"
                 /\ UNCHANGED <<db_rooms, rooms>> ]_vars

(***************************************************************************)
(* Requests rejected for a state conflict.                                 *)
(***************************************************************************)
StateConflicts ==
    { "You are already in this room",
      "Room is full",
      "This character is already taken",
      "Your character is already locked and cannot be changed",
      "Only the room creator can start the game",
      "You must select a character before locking it" }

\* C14: a step that answers a request with one of the state-conflict errors
\* leaves the room store, the room cache, every session and every user
\* record as they were.
C14_ConflictChangesNothing ==
    [][(sent'.status = "error" /\ sent'.message \in StateConflicts)
          => UNCHANGED <<db_rooms, rooms, clients, db_users>>]_vars

\* the conflict that has just been answered
ConflictSent(msg) == sent.status = "error" /\ sent.message = msg

\* a request has just been refused for a conflict after characters were
\* selected and locked, so that there was state to lose
C14_Witness ==
    /\ \E msg \in StateConflicts : ConflictSent(msg)
    /\ \E rid \in DOMAIN db_rooms :
          /\ Stored(rid)
          /\ db_rooms[rid].player_characters # EmptyDict
          /\ db_rooms[rid].character_locked # EmptyDict

(***************************************************************************)
(* Requests of a session that has not signed in.                           *)
(***************************************************************************)
\* C15: a request of a kind that needs authentication, sent by a session
\* with no username, is answered with an error, changes neither the store,
\* the cache nor the sessions, and returns no data.
C15_UnauthenticatedRejected ==
    [][\A c \in DOMAIN clients :
          (pc[c] = "idle" /\ UserOf(c) = None /\ Request(c))
          => /\ sent'.conn = c /\ sent'.status = "error"
             /\ UNCHANGED <<db_rooms, db_users, rooms, clients>>]_vars

(***************************************************************************)
(* Room-scoped requests and membership.                                    *)
(***************************************************************************)
\* connection c, running start_game, submit_answer, select_character or
\* lock_character, writes to the stored room in this step
RoomScopedWrite(c) ==
    /\ pc[c] \in {"start_update", "answer_update", "role_update",
                  "select_update", "lock_update"}
    /\ pc'[c] # pc[c]
    /\ Stored(loc[c].room_id)

\* C16: start_game, submit_answer, select_character and lock_character write
\* to a room only when the session's current username is in that room's
\* stored players list at that moment.
C16_OnlyMembersMutate ==
    [][\A c \in DOMAIN clients :
          RoomScopedWrite(c) => InList(UserOf(c), db_rooms[loc[c].room_id].players)]_vars

(***************************************************************************)
(* The role of a completed quiz.                                           *)
(***************************************************************************)
\* the place of each letter in the alphabet
AlphabetRank == [o \in {"A", "B", "C", "D", "E", "F"} |->
                    CASE o = "A" -> 1 [] o = "B" -> 2 [] o = "C" -> 3
                      [] o = "D" -> 4 [] o = "E" -> 5 [] o = "F" -> 6]
Occurrences(answers, o) == Cardinality({i \in DOMAIN answers : answers[i] = o})
MostFrequent(answers) ==
    {o \in DOMAIN AlphabetRank :
        \A x \in DOMAIN AlphabetRank : Occurrences(answers, x) <= Occurrences(answers, o)}
\* the alphabetically smallest of the letters that occur most often
SmallestMostFrequent(answers) ==
    CHOOSE o \in MostFrequent(answers) :
        \A x \in MostFrequent(answers) : AlphabetRank[o] <= AlphabetRank[x]
\* the role table of the client (ROLE_MAPPING of main.py)
RoleTable(o) ==
    CASE o = "A" -> "Barbarian / Monk (Melee DPS)"
      [] o = "B" -> "Fighter/Knight (Tank)"
      [] o = "C" -> "Rogue / Scout-Ranger (Stealth/Agile)"
      [] o = "D" -> "Gunman / Ranger (Ranged Physical)"
      [] o = "E" -> "Bard / Priest / Alchemist (Support/Healing)"
      [] o = "F" -> "Wizard / Druids / Necromancer / Elementalist / Summoner / Sorcerer / Warlock (Magical Combatants)"

\* C17: for every sequence of 5 answers over A..F, the role calculate_role
\* returns (stored by the handler, then sent as role_assigned) is the table's
\* role of the alphabetically smallest letter among the most frequent ones;
\* it depends on the sequence only.
C17_RoleOfSmallestMostFrequent ==
    [][\A c \in DOMAIN clients :
          /\ (pc[c] = "role_update" /\ pc'[c] = "role_mem")
             => LET answers == answers_of(c)[UserOf(c)] IN
                /\ calculate_role(answers) = RoleTable(SmallestMostFrequent(answers))
                /\ db_rooms'[loc[c].room_id].player_roles[UserOf(c)]
                      = RoleTable(SmallestMostFrequent(answers))
          /\ (pc[c] = "role_mem" /\ pc'[c] = "idle")
             => /\ sent'.action = "role_assigned"
                /\ sent'.message = RoleTable(SmallestMostFrequent(answers_of(c)[UserOf(c)]))]_vars

\* a role has just been assigned for a sequence in which two letters tie for
\* the most frequent and the later of the two comes first in the sequence
C17_Witness ==
    /\ sent.action = "role_assigned"
    /\ \E rid \in DOMAIN db_rooms :
          /\ Stored(rid)
          /\ LET answers == db_rooms[rid].player_answers[UserOf(sent.conn)] IN
             /\ all_answered(answers)
             /\ Cardinality(MostFrequent(answers)) = 2
             /\ answers[1] # SmallestMostFrequent(answers)
             /\ answers[1] \in MostFrequent(answers)
             /\ sent.message = RoleTable(SmallestMostFrequent(answers))

(***************************************************************************)
(* Assigning the role.                                                     *)
(***************************************************************************)
\* the answers the store holds for username in room rid
StoredAnswers(rid, username) ==
    IF Stored(rid) THEN DictGet(db_rooms[rid].player_answers, username, <<>>) ELSE <<>>

\* C18: once a submit_answer has been recorded and answered, the handler goes
\* on to compute, store and send the role exactly when the player's stored
\* answer sequence has 5 non-empty entries; the role it stores is the one of
\* calculate_role; role_assigned goes to the submitting connection only.
C18_RoleIffFiveAnswers ==
    [][\A c \in DOMAIN clients :
          /\ (pc[c] = "answer_mem" /\ pc'[c] # "answer_mem")
             => ( pc'[c] = "role_update"
                    <=> all_answered(StoredAnswers(loc[c].room_id, UserOf(c))) )
          /\ (pc[c] = "role_update" /\ pc'[c] = "role_mem" /\ Stored(loc[c].room_id))
             => /\ UserOf(c) \in DOMAIN db_rooms'[loc[c].room_id].player_roles
                /\ db_rooms'[loc[c].room_id].player_roles[UserOf(c)]
                      = calculate_role(answers_of(c)[UserOf(c)])
          /\ (pc[c] = "role_mem" /\ pc'[c] = "idle")
             => sent'.conn = c /\ sent'.action = "role_assigned" /\ pushed' = {}
          /\ (sent'.action = "role_assigned" \/ \E m \in pushed' : m.action = "role_assigned")
             => pc[sent'.conn] = "role_mem" ]_vars

\* C19: a player is sent role_assigned once: the handler that sends it found
\* no role stored for the player when it read the room; and a stored
\* player_roles[username] never changes once it is set.
C19_RoleAssignedOnce ==
    [][ /\ \A c \in DOMAIN clients :
              (pc[c] = "role_mem" /\ pc'[c] = "idle" /\ sent'.action = "role_assigned")
              => UserOf(c) \notin DOMAIN loc[c].room.player_roles
        /\ \A rid \in DOMAIN db_rooms :
              (Stored(rid) /\ db_rooms'[rid] # NoRoom)
              => \A u \in DOMAIN db_rooms[rid].player_roles :
                    /\ u \in DOMAIN db_rooms'[rid].player_roles
                    /\ db_rooms'[rid].player_roles[u] = db_rooms[rid].player_roles[u] ]_vars

\* C20: when a join, leave (members remaining), start, select or lock
\* handler broadcasts the update of a stored room R, room_updated is pushed
\* to every connected session whose room id is R and to no other session.
C20_RoomUpdatedToMembers ==
    [][\A c \in DOMAIN clients :
          ( /\ pc[c] \in {"join_notify", "leave_notify", "start_notify",
                          "select_notify", "lock_notify"}
            /\ pc'[c] # pc[c]
            /\ Stored(loc[c].room_id) )
          => pushed' = {[conn |-> d, action |-> "room_updated"] :
                            d \in {x \in Connected : clients[x].room_id = loc[c].room_id}} ]_vars

(***************************************************************************)
(* Broadcasting the room list.                                             *)
(***************************************************************************)
\* C21: the step that ends a successful create_room, join_room or leave_room
\* pushes rooms_updated to every connected session, whatever its user or
\* room, and no other step pushes rooms_updated.
C21_RoomListToEveryone ==
    [][ /\ \A c \in DOMAIN clients :
              (pc[c] \in {"create_list", "join_list", "leave_list"} /\ pc'[c] # pc[c])
              => pushed' = {[conn |-> d, action |-> "rooms_updated"] : d \in Connected}
        /\ (\E m \in pushed' : m.action = "rooms_updated")
              => \E c \in DOMAIN clients :
                    /\ pc[c] \in {"create_list", "join_list", "leave_list"}
                    /\ pc'[c] # pc[c] ]_vars

(***************************************************************************)
(* broadcast_room_list, one turn of its loop at a time.  The loop          *)
(*     for client_data in self.clients.values(): self.send_message(...)    *)
(* leaves the interpreter in every send_message, so handle_client of       *)
(* another thread can register a session between two turns.  The iterator  *)
(* of a dict raises RuntimeError ("dictionary changed size during          *)
(* iteration") on the turn after the dict has grown; the except clause of  *)
(* broadcast_room_list ends the broadcast there.  self.clients keeps its   *)
(* sessions in the order they were registered, which here is the order of  *)
(* the connection numbers.                                                 *)
(***************************************************************************)
\* the iterator: the keys of self.clients when the loop began, the last key
\* visited (0 before the first turn), and whether json.dumps accepts the
\* message
Iterator(keys, pos, ok) == [keys |-> keys, pos |-> pos, ok |-> ok]

\* find({"is_active": True}), in the handler of c that has reached its call
\* of broadcast_room_list
broadcast_room_list_find(c) ==
    /\ pc[c] \in {"create_list", "join_list", "leave_list"}
    /\ pc' = [pc EXCEPT ![c] = "list_each"]
    /\ loc' = [loc EXCEPT ![c].arg =
                  Iterator({}, 0, json_dumps(active_rooms) = "text")]
    /\ Quiet
    /\ UNCHANGED <<db_rooms, db_users, rooms, clients>>

\* broadcast_room_list returns, and with it the handler: to the read loop,
\* or to disconnect_client, which removes the session
broadcast_room_list_return(c) ==
    /\ IF loc[c].disconnecting
       THEN /\ clients' = [clients EXCEPT ![c] = NoClient]
            /\ pc' = [pc EXCEPT ![c] = "closed"]
            /\ loc' = [loc EXCEPT ![c] = NoLocal]
       ELSE Done(c) /\ UNCHANGED clients
    /\ Quiet

\* one turn of the loop (the first one starts it): RuntimeError when the
\* dict has changed size, the end of the loop after the last key, else
\* send_message to the next session
broadcast_room_list_each(c) ==
    /\ pc[c] = "list_each"
    /\ LET it == loc[c].arg
           keys == IF it.pos = 0 THEN Connected ELSE it.keys
           rest == {d \in Connected : d > it.pos} IN
       IF Cardinality(Connected) # Cardinality(keys) \/ rest = {}
       THEN broadcast_room_list_return(c)
       ELSE LET d == CHOOSE x \in rest : \A y \in rest : x <= y IN
            /\ sent' = NoReply
            /\ pushed' = IF it.ok THEN {[conn |-> d, action |-> "rooms_updated"]} ELSE {}
            /\ loc' = [loc EXCEPT ![c].arg = Iterator(keys, d, it.ok)]
            /\ UNCHANGED <<pc, clients>>
    /\ UNCHANGED <<db_rooms, db_users, rooms>>

\* create_room, join_room and leave_room up to their call of broadcast_room_list
ChangeRooms ==
    \/ \E c \in ConnIds, rid \in Codes : handle_create_room_insert(c, rid)
    \/ \E c \in ConnIds : handle_create_room_user(c)
    \/ \E c \in ConnIds : handle_create_room_mem(c)
    \/ \E c \in ConnIds, rid \in Codes : handle_join_room_find(c, rid)
    \/ \E c \in ConnIds : handle_join_room_update(c)
    \/ \E c \in ConnIds : handle_join_room_user(c)
    \/ \E c \in ConnIds : handle_join_room_mem(c)
    \/ \E c \in ConnIds : handle_join_room_notify(c)
    \/ \E c \in ConnIds : handle_leave_room_find(c)
    \/ \E c \in ConnIds : handle_leave_room_update(c)
    \/ \E c \in ConnIds : handle_leave_room_mem(c)
    \/ \E c \in ConnIds : handle_leave_room_notify(c)

BroadcastList ==
    \/ \E c \in ConnIds : broadcast_room_list_find(c)
    \/ \E c \in ConnIds : broadcast_room_list_each(c)

Accept == \E c \in ConnIds : handle_client(c)

(***************************************************************************)
(* SpecBroadcast: the room list broadcast while connections arrive.  The   *)
(* first connection's user has created the room, the other connections of  *)
(* Conns have signed in, and one more connection has not been accepted     *)
(* yet.  No connection closes.                                             *)
(***************************************************************************)
BroadcastRoom == RoomCodes[1]
BroadcastConns == 1..(NumConns + 1)
InitBroadcast ==
    /\ db_rooms = [r \in {BroadcastRoom} |-> NewRoom(UserNames[1])]
    /\ db_users = [u \in Users |->
                     IF u = UserNames[1] THEN [NewUser EXCEPT !.last_room = BroadcastRoom]
                     ELSE NewUser]
    /\ rooms = db_rooms
    /\ clients = [c \in BroadcastConns |->
                     IF c = 1 THEN Session(UserNames[1], BroadcastRoom)
                     ELSE IF c \in Conns THEN Session(UserNames[c], None)
                     ELSE NoClient]
    /\ pc = [c \in BroadcastConns |-> IF c \in Conns THEN "idle" ELSE "closed"]
    /\ loc = [c \in BroadcastConns |-> NoLocal]
    /\ sent = NoReply
    /\ pushed = {}
NextBroadcast == ChangeRooms \/ BroadcastList \/ Accept
SpecBroadcast == InitBroadcast /\ [][NextBroadcast]_vars

\* the thread of connection c takes the step
StepOf(c) == pc'[c] # pc[c] \/ loc'[c] # loc[c]

\* C22: when the loop of a broadcast ends, every session that was registered
\* when it began and is still registered has been visited, whatever was
\* registered meanwhile; and no turn of the loop changes the store or the
\* cache.
C22_BroadcastVisitsAll ==
    [][\A c \in DOMAIN clients :
          /\ (pc[c] = "list_each" /\ pc'[c] # "list_each")
             => \A d \in loc[c].arg.keys \cap Connected : d <= loc[c].arg.pos
          /\ (pc[c] = "list_each" /\ StepOf(c))
             => db_rooms' = db_rooms /\ rooms' = rooms ]_vars

(***************************************************************************)
(* SpecReplies: the replies to the last answer of a quiz.  The first        *)
(* connection's user is alone in the room it created and has answered the  *)
(* first four questions, each with one of the first NumOptions letters; it *)
(* answers the fifth question, and answers it again, with one of these     *)
(* letters or with a letter that is no option.                             *)
(***************************************************************************)
RepliesRoom == RoomCodes[1]
NoOption == "G"
InitReplies ==
    /\ \E first \in [1..4 -> Letters] :
          db_rooms = [r \in {RepliesRoom} |->
                        [NewRoom(UserNames[1]) EXCEPT
                            !.game_started = TRUE,
                            !.player_answers = DictSet(EmptyDict, UserNames[1], first)]]
    /\ db_users = [u \in {UserNames[1]} |-> [NewUser EXCEPT !.last_room = RepliesRoom]]
    /\ rooms = db_rooms
    /\ clients = [c \in {1} |-> Session(UserNames[1], RepliesRoom)]
    /\ pc = [c \in {1} |-> "idle"]
    /\ loc = [c \in {1} |-> NoLocal]
    /\ sent = NoReply
    /\ pushed = {}
NextReplies == SubmitAnswerOf({4}, Letters \cup {NoOption}) \/ AssignRole
SpecReplies == InitReplies /\ [][NextReplies]_vars

\* C24: a request gets one direct reply, a success or an error and not both:
\* an error is sent only by the first step of a handler, before any success
\* response to the request, and the step of submit_answer that has recorded
\* the answer sends the success response.
C24_SuccessOrError ==
    [][\A c \in DOMAIN clients :
          /\ (sent'.conn = c /\ sent'.status = "error") => pc[c] = "idle"
          /\ (pc[c] = "answer_mem" /\ pc'[c] # pc[c])
             => sent'.conn = c /\ sent'.status = "success" ]_vars

(***************************************************************************)
(* Failing store calls.  A call of pymongo raises when the store cannot be *)
(* reached; the except clause of the handler sends an error and the        *)
(* handler returns.  What the handler wrote before stays written.          *)
(***************************************************************************)
\* the store call of the step at which the handler of c stands raises
raises(c, step, request, message) ==
    /\ pc[c] = step
    /\ Finish(c, ErrorReply(request, message))
    /\ UNCHANGED <<db_rooms, db_users, rooms, clients>>

\* users_collection.update_one of handle_create_room raises, after insert_one
handle_create_room_user_raises(c) ==
    raises(c, "create_user", "create_room", "Room creation failed")
\* rooms_collection.update_one of handle_join_room raises
handle_join_room_update_raises(c) ==
    raises(c, "join_update", "join_room", "Failed to join room")
\* users_collection.update_one of handle_join_room raises, after the room update
handle_join_room_user_raises(c) ==
    raises(c, "join_user", "join_room", "Failed to join room")
\* rooms_collection.update_one of handle_select_character raises
handle_select_character_update_raises(c) ==
    raises(c, "select_update", "select_character", "Failed to select character")
\* users_collection.update_one of handle_select_character raises, after the
\* room update and the success response
handle_select_character_user_raises(c) ==
    raises(c, "select_user", "select_character", "Failed to select character")

StoreFails ==
    \/ \E c \in ConnIds : handle_create_room_user_raises(c)
    \/ \E c \in ConnIds : handle_join_room_update_raises(c)
    \/ \E c \in ConnIds : handle_join_room_user_raises(c)
    \/ \E c \in ConnIds : handle_select_character_update_raises(c)
    \/ \E c \in ConnIds : handle_select_character_user_raises(c)

(***************************************************************************)
(* SpecFaults: create_room, join_room and select_character with a store    *)
(* that may fail.  Both connections have signed in and no room exists.     *)
(***************************************************************************)
NextFaults == CreateRoom \/ JoinRoom \/ SelectCharacter \/ StoreFails
SpecFaults == InitLifecycle /\ [][NextFaults]_vars


\* the handler of c is answered with an error at one of its steps after the first
FailsAt(c, steps) ==
    pc[c] \in steps /\ sent'.conn = c /\ sent'.status = "error"

\* C29: when a store call fails partway through create_room, join_room or
\* select_character, nothing the request wrote is left in the store: the
\* room it inserted is not stored, the joining user is not in the stored
\* players, the character is not stored for the user.
C29_FailureLeavesNothing ==
    [][\A c \in DOMAIN clients :
          /\ FailsAt(c, {"create_user"}) => db_rooms'[loc[c].room_id] = NoRoom
          /\ (FailsAt(c, {"join_update", "join_user"}) /\ Stored(loc[c].room_id))
             => ~InList(UserOf(c), db_rooms'[loc[c].room_id].players)
          /\ (FailsAt(c, {"select_update", "select_user"}) /\ Stored(loc[c].room_id))
             => DictGet(db_rooms'[loc[c].room_id].player_characters, UserOf(c), None)
                   # loc[c].arg ]_vars


(***************************************************************************)
(* Errors go to the requester.                                             *)
(***************************************************************************)
\* C23: the step that sends an error response is a step of the thread of
\* the connection the response goes to; it pushes nothing to any connection
\* and it ends the handler, so that no broadcast of the failing request
\* follows; and no error is ever pushed.
C23_ErrorToRequesterOnly ==
    [][ /\ sent'.status = "error"
           => /\ sent'.conn \in DOMAIN clients
              /\ pc[sent'.conn] # "closed"
              /\ pc'[sent'.conn] = "idle"
              /\ \A d \in DOMAIN clients \ {sent'.conn} : ~StepOf(d)
              /\ pushed' = {}
        /\ \A m \in pushed' : m.action \in {"room_updated", "rooms_updated"} ]_vars

\* an error has been sent to a connection while another connection is
\* registered in the same room
C23_Witness ==
    /\ sent.status = "error"
    /\ \E d \in Connected \ {sent.conn} :
          /\ clients[sent.conn] # NoClient
          /\ clients[d].room_id # None
          /\ clients[d].room_id = clients[sent.conn].room_id


(***************************************************************************)
(* Cleanup when a connection closes.                                       *)
(***************************************************************************)
\* C25: when the cleanup of a closing connection ends, its session is
\* removed, and if the session was in a room that is still stored, the
\* session's user is not in the stored players of that room.
C25_DisconnectLeaves ==
    [][\A c \in DOMAIN clients :
          (pc[c] # "closed" /\ pc'[c] = "closed")
          => /\ clients'[c] = NoClient
             /\ (pc[c] = "leave_list" /\ Stored(loc[c].room_id))
                => ~InList(UserOf(c), db_rooms'[loc[c].room_id].players) ]_vars


(***************************************************************************)
(* Messages the handlers do not expect.  handle_client catches only        *)
(* json.JSONDecodeError around json.loads and process_message; any other   *)
(* exception that leaves process_message ends the read loop, and the       *)
(* finally clause runs disconnect_client.                                  *)
(*   invalid_json       text that json.loads rejects                       *)
(*   not_object         JSON that is no object (an array, a number, null): *)
(*                      message.get raises AttributeError                  *)
(*   unknown_action     an object whose action is a string, a number or    *)
(*                      null that handler_map does not hold                *)
(*   unhashable_action  an object whose action is an array or an object:   *)
(*                      handler_map.get raises TypeError                   *)
(*   data_not_object    a sign_in, join_room, submit_answer or             *)
(*                      select_character request whose data is no object:  *)
(*                      data.get, before the try of the handler, raises    *)
(*                      AttributeError                                     *)
(***************************************************************************)
Unexpected ==
    {"invalid_json", "not_object", "unknown_action", "unhashable_action", "data_not_object"}

\* the read loop of handle_client receives the message on connection c
receive(c, message) ==
    /\ Idle(c)
    /\ IF message = "invalid_json"
       THEN /\ Send(c, ErrorReply(None, "Invalid JSON format"))
            /\ UNCHANGED <<db_rooms, db_users, rooms, clients, pc, loc>>
       ELSE IF message = "unknown_action"
       THEN /\ Send(c, ErrorReply(None, "Unknown action"))
            /\ UNCHANGED <<db_rooms, db_users, rooms, clients, pc, loc>>
       ELSE disconnect_client(c)

Receive == \E c \in ConnIds, message \in Unexpected : receive(c, message)

(***************************************************************************)
(* SpecUnexpected: unexpected messages among room requests.  Both          *)
(* connections have signed in and no room exists; they create, join and    *)
(* leave the room and send messages the handlers do not expect.            *)
(***************************************************************************)
NextUnexpected == Receive \/ CreateRoom \/ JoinRoom \/ LeaveRoom
SpecUnexpected == InitLifecycle /\ [][NextUnexpected]_vars

\* the step that receives the message answers connection c with an error and
\* leaves the thread of c in its read loop, the session registered
AnsweredWithError(c) ==
    /\ sent'.conn = c /\ sent'.status = "error"
    /\ pc'[c] = "idle"
    /\ clients'[c] # NoClient

\* C26: whatever the message, the connection that sent it is answered with
\* an error and stays open, its session registered.
C26_NoRequestClosesConnection ==
    [][\A c \in DOMAIN clients, message \in Unexpected :
          receive(c, message) => AnsweredWithError(c) ]_vars

\* C27: a request whose action is none of the catalogued ones is answered
\* with an error and changes no session, no room and no user.
C27_UnknownActionRejected ==
    [][\A c \in DOMAIN clients, message \in {"unknown_action", "unhashable_action"} :
          receive(c, message)
          => /\ AnsweredWithError(c)
             /\ UNCHANGED <<db_rooms, db_users, rooms, clients>> ]_vars


(***************************************************************************)
(* Room codes.                                                             *)
(***************************************************************************)
\* C28: create_room by a signed-in user, while a code is still free, stores
\* a room under a code that no stored room had, whatever code
\* generate_room_id draws first, and is not answered with an error.
C28_CreateRetriesOnCollision ==
    [][\A c \in DOMAIN clients, rid \in DOMAIN db_rooms :
          ( /\ handle_create_room_insert(c, rid)
            /\ UserOf(c) # None
            /\ \E r \in DOMAIN db_rooms : db_rooms[r] = NoRoom )
          => /\ sent'.status # "error"
             /\ \E r \in DOMAIN db_rooms :
                   db_rooms[r] = NoRoom /\ db_rooms'[r] # NoRoom ]_vars


(***************************************************************************)
(* The order of a player's progress.                                       *)
(***************************************************************************)
\* C30: in every stored room, a player with a recorded answer or a role is
\* in a room whose game has started, a player who holds a character has a
\* role, and a player whose lock flag is set holds a character.
C30_ProgressInOrder ==
    \A rid \in DOMAIN db_rooms :
        Stored(rid) =>
           LET room == db_rooms[rid] IN
           /\ \A u \in (DOMAIN room.player_answers) \cup (DOMAIN room.player_roles) :
                 room.game_started
           /\ \A u \in DOMAIN room.player_characters : u \in DOMAIN room.player_roles
           /\ \A u \in DOMAIN room.character_locked :
                 room.character_locked[u] => u \in DOMAIN room.player_characters

(***************************************************************************)
(* The cache and the store.                                                *)
(***************************************************************************)
\* no thread is inside a handler
Quiescent == \A c \in DOMAIN pc : pc[c] \in {"idle", "closed"}

\* the fields of a room document that the handlers write to the cache
Mirrored ==
    {"players", "player_answers", "player_roles", "player_characters",
     "character_locked", "game_started"}

\* C31: whenever no handler is running, every cached room is stored and its
\* cached players, player_answers, player_roles, player_characters,
\* character_locked and game_started equal the stored ones.
C31_CacheMirrorsStore ==
    Quiescent =>
        \A rid \in DOMAIN rooms :
            Cached(rid) =>
                /\ Stored(rid)
                /\ \A f \in Mirrored : rooms[rid][f] = db_rooms[rid][f]

(***************************************************************************)
(* SpecFlags: the lock flag of a session.  The first connection's user has *)
(* created the room and selected the first character; the connection locks *)
(* the character, leaves, creates and joins rooms and signs in again, as    *)
(* any registered user.                                                    *)
(***************************************************************************)
FlagsRoom == RoomCodes[1]
InitFlags ==
    /\ db_rooms = [r \in RoomIds |->
                     IF r = FlagsRoom
                     THEN [NewRoom(UserNames[1]) EXCEPT
                             !.player_characters =
                                 DictSet(EmptyDict, UserNames[1], CharacterNames[1])]
                     ELSE NoRoom]
    /\ db_users = [u \in Users |->
                     IF u = UserNames[1]
                     THEN [last_room |-> FlagsRoom, character |-> CharacterNames[1]]
                     ELSE NewUser]
    /\ rooms = db_rooms
    /\ clients = [c \in {1} |-> Session(UserNames[1], FlagsRoom)]
    /\ pc = [c \in {1} |-> "idle"]
    /\ loc = [c \in {1} |-> NoLocal]
    /\ sent = NoReply
    /\ pushed = {}
NextFlags == LockCharacter \/ LeaveRoom \/ CreateRoom \/ JoinRoom \/ SignIn
SpecFlags == InitFlags /\ [][NextFlags]_vars

\* the lock flag the stored room of session c records for the session's user
RoomLockOf(c) ==
    LET rid == clients[c].room_id IN
    IF rid = None \/ ~Stored(rid) THEN FALSE
    ELSE DictGet(db_rooms[rid].character_locked, UserOf(c), FALSE)

\* C32: between the requests of a session, its character_locked flag equals
\* the lock flag its current room records for its current username, and is
\* false when the session is in no room or the room records no lock for
\* that user.
C32_SessionLockMirrorsRoom ==
    \A c \in Connected :
        pc[c] = "idle" => clients[c].character_locked = RoomLockOf(c)

(***************************************************************************)
(* SpecTwoRooms: requests on two rooms at once.  The first connection      *)
(* created the first room as the first user and then signed in as the      *)
(* third user and joined that room; the second connection's user has       *)
(* created the second room.  The sessions start the game, select and lock  *)
(* characters, and leave.                                                  *)
(***************************************************************************)
TwoRoomsUsers == {UserNames[i] : i \in 1..3}
InitTwoRooms ==
    /\ db_rooms = [r \in {RoomCodes[1], RoomCodes[2]} |->
                     IF r = RoomCodes[1] THEN RoomOf(UserNames[1], <<UserNames[3]>>)
                     ELSE NewRoom(UserNames[2])]
    /\ db_users = [u \in TwoRoomsUsers |->
                     [NewUser EXCEPT !.last_room =
                         IF u = UserNames[2] THEN RoomCodes[2] ELSE RoomCodes[1]]]
    /\ rooms = db_rooms
    /\ clients = [c \in {1, 2} |->
                     IF c = 1 THEN Session(UserNames[3], RoomCodes[1])
                     ELSE Session(UserNames[2], RoomCodes[2])]
    /\ pc = [c \in {1, 2} |-> "idle"]
    /\ loc = [c \in {1, 2} |-> NoLocal]
    /\ sent = NoReply
    /\ pushed = {}
NextTwoRooms == StartGame \/ SelectCharacter \/ LockCharacter \/ LeaveRoom
SpecTwoRooms == InitTwoRooms /\ [][NextTwoRooms]_vars

\* the room the handler of connection c works on in this step: the room of
\* its local variables, which the first step of a handler sets
RequestRoom(c) ==
    IF loc[c] # NoLocal THEN loc[c].room_id
    ELSE IF loc'[c] # NoLocal THEN loc'[c].room_id
    ELSE None

\* C33: a step of a request on one room leaves the stored and the cached
\* document of every other room as they were, whatever the other threads
\* are in the middle of.
C33_OtherRoomsUnchanged ==
    [][\A c \in DOMAIN clients :
          StepOf(c) =>
             \A rid \in DOMAIN db_rooms :
                rid # RequestRoom(c)
                => db_rooms'[rid] = db_rooms[rid] /\ rooms'[rid] = rooms[rid] ]_vars

\* a selection has been stored in one room while the handler of another
\* connection stands between its read and its write of another stored room
C33_Witness ==
    \E c, d \in DOMAIN clients :
        /\ pc[c] = "select_mem"
        /\ pc[d] \in {"leave_update", "select_update", "lock_update", "start_update"}
        /\ loc[c].room_id # loc[d].room_id
        /\ Stored(loc[c].room_id) /\ Stored(loc[d].room_id)
        /\ Holds(loc[c].room_id, UserOf(c)) = loc[c].arg

(***************************************************************************)
(* SpecSameUser: one user on two connections.  The first connection        *)
(* created the first room as the first user and then signed in as the      *)
(* second user; the second connection has signed in as the second user     *)
(* too.  Both create, join and leave rooms.                                *)
(***************************************************************************)
InitSameUser ==
    /\ db_rooms = [r \in RoomIds |->
                     IF r = RoomCodes[1] THEN NewRoom(UserNames[1]) ELSE NoRoom]
    /\ db_users = [u \in {UserNames[1], UserNames[2]} |->
                     IF u = UserNames[1] THEN [NewUser EXCEPT !.last_room = RoomCodes[1]]
                     ELSE NewUser]
    /\ rooms = db_rooms
    /\ clients = [c \in {1, 2} |->
                     IF c = 1 THEN Session(UserNames[2], RoomCodes[1])
                     ELSE Session(UserNames[2], None)]
    /\ pc = [c \in {1, 2} |-> "idle"]
    /\ loc = [c \in {1, 2} |-> NoLocal]
    /\ sent = NoReply
    /\ pushed = {}
SpecSameUser == InitSameUser /\ [][NextRooms]_vars

\* no element occurs twice in the list s
NoDuplicates(s) == \A i, j \in 1..Len(s) : s[i] = s[j] => i = j

\* C34: the players list of a room, stored or cached, never holds a
\* username twice.
C34_NoDuplicatePlayers ==
    /\ \A rid \in DOMAIN db_rooms : Stored(rid) => NoDuplicates(db_rooms[rid].players)
    /\ \A rid \in DOMAIN rooms : Cached(rid) => NoDuplicates(rooms[rid].players)

\* two connections of the same user have both written their join of the
\* same room, each from a read that did not hold the user
C34_Witness ==
    \E c, d \in DOMAIN clients :
        /\ c # d
        /\ clients[c] # NoClient /\ clients[d] # NoClient
        /\ UserOf(c) = UserOf(d)
        /\ pc[c] \in {"join_user", "join_mem"} /\ pc[d] \in {"join_user", "join_mem"}
        /\ loc[c].room_id = loc[d].room_id
        /\ Stored(loc[c].room_id)
        /\ InList(UserOf(c), db_rooms[loc[c].room_id].players)

(***************************************************************************)
(* Leaving a room that keeps other members.                                *)
(***************************************************************************)
\* the entries of dict d other than the one of key k
Others(d, k) == [x \in (DOMAIN d) \ {k} |-> d[x]]

\* C35: the store write of a leave_room by u, on a stored room that has
\* other members, keeps the room, removes u from players, player_characters
\* and character_locked, leaves player_answers, player_roles and every
\* other member's character and lock entries as they were, and leaves u's
\* character held by nobody; the next step of the handler clears the
\* session's room id and lock flag.
C35_LeaveTrimsRoom ==
    [][\A c \in DOMAIN clients :
          /\ ( /\ pc[c] = "leave_update" /\ pc'[c] = "leave_mem"
               /\ Stored(loc[c].room_id)
               /\ left_players(db_rooms[loc[c].room_id], UserOf(c)) # <<>> )
             => LET rid == loc[c].room_id
                    u == UserOf(c)
                    old == db_rooms[rid]
                    new == db_rooms'[rid] IN
                /\ new # NoRoom
                /\ new.players = left_players(old, u)
                /\ u \notin DOMAIN new.player_characters
                /\ u \notin DOMAIN new.character_locked
                /\ new.player_answers = old.player_answers
                /\ new.player_roles = old.player_roles
                /\ new.player_characters = Others(old.player_characters, u)
                /\ new.character_locked = Others(old.character_locked, u)
                /\ Holds(rid, u) # None
                   => Holds(rid, u) \notin DictValues(new.player_characters)
          /\ (pc[c] = "leave_mem" /\ pc'[c] # "leave_mem")
             => /\ clients'[c].room_id = None
                /\ ~clients'[c].character_locked ]_vars

(***************************************************************************)
(* Recording an answer.                                                    *)
(***************************************************************************)
\* C36: the store write of a submit_answer(question_index, answer) by u
\* leaves u's stored sequence with the answer at question_index, padded
\* with empty slots before it where it was shorter and otherwise as it was,
\* and leaves the stored sequence of every other player as it was.
C36_AnswerRecorded ==
    [][\A c \in DOMAIN clients :
          ( /\ pc[c] = "answer_update" /\ pc'[c] = "answer_mem"
            /\ Stored(loc[c].room_id) )
          => LET rid == loc[c].room_id
                 u == UserOf(c)
                 old == db_rooms[rid].player_answers
                 new == db_rooms'[rid].player_answers IN
             /\ u \in DOMAIN new
             /\ new[u] = recorded(DictGet(old, u, <<>>), loc[c].arg[1], loc[c].arg[2])
             /\ Others(new, u) = Others(old, u) ]_vars

(***************************************************************************)
(* Sessions and membership.                                                *)
(***************************************************************************)
\* C37: every session that is between two requests and has a room id refers
\* to a stored room whose players list holds the session's username.
C37_SessionRoomHoldsUser ==
    \A c \in Connected :
        (pc[c] = "idle" /\ clients[c].room_id # None)
        => /\ Stored(clients[c].room_id)
           /\ InList(UserOf(c), db_rooms[clients[c].room_id].players)

(***************************************************************************)
(* SpecShutdown: the room lifecycle until every connection has closed.     *)
(* Each connection has signed in as its own user and no room exists; the   *)
(* sessions create, join and leave rooms and disconnect, and no connection *)
(* is accepted afterwards.                                                 *)
(***************************************************************************)
NextShutdown == CreateRoom \/ JoinRoom \/ LeaveRoom \/ Disconnect
SpecShutdown == InitRooms /\ [][NextShutdown]_vars

\* C38: when every connection has disconnected and its cleanup has ended,
\* the store holds no room.
C38_NoRoomOutlivesSessions ==
    (\A c \in DOMAIN pc : pc[c] = "closed")
    => \A rid \in DOMAIN db_rooms : ~Stored(rid)

(***************************************************************************)
(* The creator of a room.                                                  *)
(***************************************************************************)
\* C39: the creator of every stored room is in its players list.
C39_CreatorIsMember ==
    \A rid \in DOMAIN db_rooms :
        Stored(rid) => InList(db_rooms[rid].creator, db_rooms[rid].players)
====
